---- MODULE Spec2Model ----
(***************************************************************************)
(* Model of the photo enhancer: the diagnostics and adaptive enhancement   *)
(* pipeline of src/app.py and its /enhance route with the cleanup threads, *)
(* the watcher of src/auto_enhance.py and the batch pipeline of            *)
(* src/enhance_photos.py.                                                  *)
(*                                                                         *)
(* A raster is a record [w, h, px]: px is the row-major sequence of the    *)
(* w*h pixels, each <<r, g, b>> with 8-bit channels.  The Python code      *)
(* computes its statistics with doubles; here every measured value is an   *)
(* exact rational <<num, den>> (den > 0) and every threshold test is       *)
(* decided by cross multiplication.  Files on which the last bit of a      *)
(* double decides a test are kept out of the pipeline's inputs             *)
(* (OnRoundingEdge); the luma sum of the color grading is modelled with    *)
(* its rounding (LumRoundsBelow).  The one inexact quantity is a standard  *)
(* deviation, kept to 1/10 of a level.  Library calls (PIL ImageStat,      *)
(* ImageEnhance, Image.composite, scipy.signal.convolve2d) are modelled by *)
(* what the library computes on 8-bit data; Image.blend works in single    *)
(* precision and is modelled bit for bit (Float32, Blend).                 *)
(***************************************************************************)
EXTENDS Integers, Sequences, FiniteSets, TLC

VARIABLES
    input,           \* the decoded file at input_path: [mode, w, h, px]
    pc,              \* position inside run_enhancement_pipeline / classify run
    img,             \* the local `img` of run_enhancement_pipeline
    full_analysis,   \* analyze_image_detailed(img) taken before stage 1
    after_analysis,  \* analyze_image_detailed(img) taken after the last stage
    steps_applied,   \* the list of stage names, in the order appended
    stage_io,        \* per applied stage: its name, the raster it read and wrote
    output_file,     \* the raster stored at output_path, NoFile if none
    error,           \* the exception that ended the call, "none" otherwise
    measured,        \* the six measured values handed to the classifier
    fp_contract,     \* whether the C compiler that built the imaging library
                     \* fused the multiply-add of its blend into one rounding
    runs,            \* what enhance_single_photo (auto_enhance.py) and
                     \* process_image (enhance_photos.py) did with the file
    watch,           \* the watcher of auto_enhance.py: input folder, tracker,
                     \* output folder and the position of its poll loop
    web              \* the /enhance route of app.py: the uploaded original,
                     \* the calls for it and their cleanup threads

vars == <<input, pc, img, full_analysis, after_analysis, steps_applied,
          stage_io, output_file, error, measured, fp_contract, runs, watch,
          web>>

-----------------------------------------------------------------------------
(* Bounds of the model *)

MaxW == 4
MaxH == 3

\* the classifier is swept over the values k / GridDen
GridDen == 2

-----------------------------------------------------------------------------
(* Arithmetic helpers *)

Min(a, b) == IF a < b THEN a ELSE b
Max(a, b) == IF a > b THEN a ELSE b
Abs(a) == IF a < 0 THEN 0 - a ELSE a

\* clamp to an 8-bit channel, as PIL's CLIP8 / the blend's extrapolation clip
Clip8(v) == IF v <= 0 THEN 0 ELSE IF v >= 255 THEN 255 ELSE v

\* a sequence given as a function, evaluated once into a tuple
Tup(f) == f \o <<>>

RECURSIVE SumSeq(_)
SumSeq(s) == IF s = <<>> THEN 0 ELSE Head(s) + SumSeq(Tail(s))

SeqMax(s) == CHOOSE v \in {s[i] : i \in 1..Len(s)} :
                 \A i \in 1..Len(s) : s[i] <= v
SeqMin(s) == CHOOSE v \in {s[i] : i \in 1..Len(s)} :
                 \A i \in 1..Len(s) : v <= s[i]

\* floor(sqrt(n)) by bisection on lo..hi (lo*lo <= n < (hi+1)*(hi+1))
RECURSIVE ISqrtIn(_, _, _)
ISqrtIn(n, lo, hi) ==
    IF lo >= hi THEN lo
    ELSE LET mid == (lo + hi + 1) \div 2
         IN  IF mid * mid <= n THEN ISqrtIn(n, mid, hi)
                               ELSE ISqrtIn(n, lo, mid - 1)
ISqrt(n) == ISqrtIn(n, 0, 46340)

\* rationals <<num, den>>, den > 0, compared with an integer k
QLt(q, k) == q[1] < k * q[2]
QGt(q, k) == q[1] > k * q[2]
QFloor(q) == q[1] \div q[2]

-----------------------------------------------------------------------------
(* Rasters *)

Pix(im, x, y) == im.px[y * im.w + x + 1]
NPix(im) == im.w * im.h
XOf(im, i) == (i - 1) % im.w
YOf(im, i) == (i - 1) \div im.w

\* apply a per-pixel map
MapPx(im, F(_)) == [im EXCEPT !.px = Tup([i \in 1..Len(im.px) |-> F(im.px[i])])]

InRange(im) == \A i \in 1..Len(im.px) : \A c \in 1..3 :
                   im.px[i][c] \in 0..255

\* PIL Image.convert('L') on an RGB pixel (ITU-R 601-2, 16-bit fixed point)
Luma(p) == (p[1] * 19595 + p[2] * 38470 + p[3] * 7471 + 32768) \div 65536

\* PIL Image.convert('HSV'): the S band of an RGB pixel
HsvS(p) ==
    LET maxc == Max(p[1], Max(p[2], p[3]))
        minc == Min(p[1], Min(p[2], p[3]))
    IN  IF minc = maxc THEN 0 ELSE Clip8((255 * (maxc - minc)) \div maxc)

\* powers of two, Pow2Tab[n + 1] = 2^n
Pow2Tab == << 1, 2, 4, 8, 16, 32, 64, 128, 256, 512, 1024, 2048, 4096, 8192,
              16384, 32768, 65536, 131072, 262144, 524288, 1048576, 2097152,
              4194304, 8388608, 16777216 >>
Pow2(n) == Pow2Tab[n + 1]

\* the number of binary digits of n >= 0
RECURSIVE BitLen(_)
BitLen(n) == IF n = 0 THEN 0 ELSE 1 + BitLen(n \div 2)

\* the next `i` binary digits of r / fd, appended to q
RECURSIVE MantissaBits(_, _, _, _)
MantissaBits(q, r, fd, i) ==
    IF i = 0 THEN <<q, r>>
    ELSE LET b == IF 2 * r >= fd THEN 1 ELSE 0
         IN  MantissaBits(2 * q + b, 2 * r - fd * b, fd, i - 1)

\* the enhancement factor f = <<num, den>>, 1/2 <= f < 2, as the C `float alpha`
\* the blend receives: <<M, E>> stands for M / 2^E with 2^23 <= M < 2^24,
\* rounded to nearest, ties to even
Float32(f) ==
    LET E  == IF f[1] >= f[2] THEN 23 ELSE 24
        qr == MantissaBits(f[1] \div f[2], f[1] % f[2], f[2], E)
        m  == IF 2 * qr[2] > f[2] \/ (2 * qr[2] = f[2] /\ qr[1] % 2 = 1)
              THEN qr[1] + 1 ELSE qr[1]
    IN  IF m = Pow2(24) THEN <<Pow2(23), 23>> ELSE <<m, E>>

\* PIL Image.blend(degenerate, image, alpha) on one channel, d the degenerate
\* and v the image value, alpha = a[1] / 2^a[2]:
\*     float temp = (float)((int)d + alpha * ((int)v - (int)d));
\*     temp <= 0 -> 0, temp >= 255 -> 255, else (UINT8)temp
\* in single precision.  The product alpha * (v - d) is rounded to 24 bits
\* before d is added, unless the build fused the two operations (fp_contract),
\* and then only the sum is rounded.  <<ip, frac, sh>> is the product as
\* ip + frac / 2^sh; the sum reaches the next integer only when it lies within
\* half a unit in the last place of it.
Blend(d, v, a) ==
    LET k  == v - d
        n  == Abs(k)
        lo == (a[1] % 4096) * n
        A  == (a[1] \div 4096) * n + lo \div 4096
        B  == lo % 4096
        s  == Max(0, BitLen(A) + 12 - 24)
        P0 == A * Pow2(12 - s) + B \div Pow2(s)
        P  == IF s > 0 /\ (2 * (B % Pow2(s)) > Pow2(s)
                            \/ (2 * (B % Pow2(s)) = Pow2(s) /\ P0 % 2 = 1))
              THEN P0 + 1 ELSE P0
        pr == IF fp_contract
              THEN << A \div Pow2(a[2] - 12),
                      (A % Pow2(a[2] - 12)) * 4096 + B, a[2] >>
              ELSE << P \div Pow2(a[2] - s), P % Pow2(a[2] - s), a[2] - s >>
        ip   == pr[1]
        frac == pr[2]
        sh   == pr[3]
        I    == IF k > 0 THEN d + ip ELSE d - ip - 1
        x    == sh + BitLen(Max(I, 0)) - 25
        gap  == IF k > 0 THEN Pow2(sh) - frac ELSE frac
    IN  IF k = 0 THEN d
        ELSE IF frac = 0 THEN Clip8(IF k > 0 THEN d + ip ELSE d - ip)
        ELSE IF I < 0 THEN 0
        ELSE IF I >= 1 /\ x >= 0 /\ gap <= Pow2(x) THEN Clip8(I + 1)
        ELSE Clip8(I)

-----------------------------------------------------------------------------
(* Statistics: analyze_image_detailed, lines 53-80 *)

\* ImageStat.Stat(img): per-band sum and sum of squares
BandSum(im, c) == SumSeq([i \in 1..Len(im.px) |-> im.px[i][c]])
BandSum2(im, c) == SumSeq([i \in 1..Len(im.px) |-> im.px[i][c] * im.px[i][c]])

\* n^2 times the band's population variance (ImageStat.var numerator)
BandVarN2(im, c) == NPix(im) * BandSum2(im, c) - BandSum(im, c) * BandSum(im, c)

\* 10 * n * stddev of the band, rounded down
BandStd10N(im, c) == ISqrt(100 * BandVarN2(im, c))

\* the 3x3 Laplacian kernel [[0,1,0],[1,-4,1],[0,1,0]], indices 0..2
Laplacian(i, j) == IF i = 1 /\ j = 1 THEN 0 - 4
                   ELSE IF i = 1 \/ j = 1 THEN 1 ELSE 0

\* scipy.signal.convolve2d(.., mode='valid') refuses two arrays neither of
\* which is at least as large as the other in every dimension (ValueError)
ConvolveValidRaises(w, h) == ~(w >= 3 /\ h >= 3) /\ ~(w <= 3 /\ h <= 3)

\* convolve2d(arr, laplacian, mode='valid') as a flat sequence.  With the
\* image at least 3x3 the output is (h-2) x (w-2); with the image inside 3x3
\* scipy swaps the operands and the output is (4-h) x (4-w).
LaplacianValid(gray, w, h) ==
    LET G(x, y) == gray[y * w + x + 1]
    IN  IF w >= 3 /\ h >= 3
        THEN [k \in 1..((h - 2) * (w - 2)) |->
                 LET i == (k - 1) \div (w - 2)
                     j == (k - 1) % (w - 2)
                 IN  SumSeq([t \in 1..9 |->
                         LET p == (t - 1) \div 3
                             q == (t - 1) % 3
                         IN  Laplacian(2 - p, 2 - q) * G(j + q, i + p)])]
        ELSE [k \in 1..((4 - h) * (4 - w)) |->
                 LET i == (k - 1) \div (4 - w)
                     j == (k - 1) % (4 - w)
                 IN  SumSeq([t \in 1..(w * h) |->
                         LET p == (t - 1) \div w
                             q == (t - 1) % w
                         IN  G(q, p) * Laplacian(i + h - 1 - p, j + w - 1 - q)])]

\* the measured values of a raster, each an exact rational except contrast
Measure(im) ==
    LET n    == NPix(im)
        R    == BandSum(im, 1)
        G    == BandSum(im, 2)
        B    == BandSum(im, 3)
        gray == Tup([i \in 1..Len(im.px) |-> Luma(im.px[i])])
        lap  == Tup(LaplacianValid(gray, im.w, im.h))
        m    == Len(lap)
        s1   == SumSeq(lap)
        s2   == SumSeq([k \in 1..m |-> lap[k] * lap[k]])
    IN  [ overall_brightness |-> <<R + G + B, 3 * n>>,
          overall_contrast   |-> <<BandStd10N(im, 1) + BandStd10N(im, 2)
                                      + BandStd10N(im, 3), 30 * n>>,
          green_dominance    |-> <<2 * G - R - B, 2 * n>>,
          sharpness_score    |-> <<m * s2 - s1 * s1, m * m>>,
          avg_saturation     |-> <<SumSeq([i \in 1..Len(im.px) |-> HsvS(im.px[i])]), n>>,
          dynamic_range      |-> SeqMax(gray) - SeqMin(gray) ]

-----------------------------------------------------------------------------
(* Severity classification: analyze_image_detailed, lines 82-251 *)

Severities == {"good", "mild", "moderate", "severe"}

MetricOrder == <<"brightness", "contrast", "color_cast", "saturation",
                 "sharpness", "dynamic_range">>

\* variant: the bounds 100 and 180 taken inclusive
BrightnessSeverityInclusive(b) ==
    IF QLt(b, 70) THEN "severe"
    ELSE IF ~QGt(b, 100) THEN "moderate"
    ELSE IF QGt(b, 200) THEN "severe"
    ELSE IF ~QLt(b, 180) THEN "moderate"
    ELSE IF QGt(b, 160) THEN "mild"
    ELSE "good"

BrightnessSeverity(b) ==
    IF QLt(b, 70) THEN "severe"
    ELSE IF QLt(b, 100) THEN "moderate"
    ELSE IF QGt(b, 200) THEN "severe"
    ELSE IF QGt(b, 180) THEN "moderate"
    ELSE IF QGt(b, 160) THEN "mild"
    ELSE "good"

ContrastSeverity(c) ==
    IF QLt(c, 35) THEN "severe"
    ELSE IF QLt(c, 50) THEN "moderate"
    ELSE IF QLt(c, 65) THEN "mild"
    ELSE "good"

ColorCastSeverity(gd) ==
    IF QGt(gd, 25) THEN "severe"
    ELSE IF QGt(gd, 15) THEN "moderate"
    ELSE IF QGt(gd, 8) THEN "mild"
    ELSE "good"

SaturationSeverity(s) ==
    IF QLt(s, 40) THEN "severe"
    ELSE IF QLt(s, 70) THEN "moderate"
    ELSE IF QLt(s, 90) THEN "mild"
    ELSE IF QGt(s, 200) THEN "moderate"
    ELSE "good"

SharpnessSeverity(s) ==
    IF QLt(s, 100) THEN "severe"
    ELSE IF QLt(s, 300) THEN "moderate"
    ELSE IF QLt(s, 800) THEN "mild"
    ELSE "good"

DynamicRangeSeverity(d) ==
    IF d < 100 THEN "moderate"
    ELSE IF d < 150 THEN "mild"
    ELSE "good"

\* penalty.get(severity, 0)
Penalty(sev) ==
    CASE sev = "good" -> 0
      [] sev = "mild" -> 5
      [] sev = "moderate" -> 12
      [] sev = "severe" -> 20
      [] OTHER -> 0

\* score = 100; for m in metrics.values(): score -= penalty[...]
RECURSIVE ScoreLoop(_, _, _)
ScoreLoop(metrics, k, score) ==
    IF k > Len(MetricOrder) THEN score
    ELSE ScoreLoop(metrics, k + 1, score - Penalty(metrics[MetricOrder[k]]))

\* variant: the clamp of line 230 left out
OverallScoreUnclamped(metrics) == ScoreLoop(metrics, 1, 100)

OverallScore(metrics) == Max(0, Min(100, ScoreLoop(metrics, 1, 100)))

RecommendedAction(key) ==
    CASE key = "brightness" -> "Adaptive Exposure Correction"
      [] key = "contrast" -> "Contrast Enhancement + S-Curve"
      [] key = "color_cast" -> "Green Cast Removal"
      [] key = "saturation" -> "Saturation Optimization"
      [] key = "sharpness" -> "Professional Sharpening"
      [] key = "dynamic_range" -> "Tone Mapping & Gradient Adjustment"

\* the loop over metrics.items() that fills recommendations
RECURSIVE RecommendLoop(_, _)
RecommendLoop(metrics, k) ==
    IF k > Len(MetricOrder) THEN <<>>
    ELSE (IF metrics[MetricOrder[k]] # "good"
          THEN <<RecommendedAction(MetricOrder[k])>> ELSE <<>>)
         \o RecommendLoop(metrics, k + 1)

\* variant: the vignette entry appended whatever the color cast
RecommendationsVignetteAlways(metrics) ==
    RecommendLoop(metrics, 1)
      \o <<"Cinematic Color Grading", "Cinematic Vignette">>

Recommendations(metrics) ==
    RecommendLoop(metrics, 1)
      \o <<"Cinematic Color Grading">>
      \o (IF metrics["color_cast"] = "good" THEN <<"Cinematic Vignette">> ELSE <<>>)

IssuesFound(metrics) ==
    Cardinality({k \in 1..Len(MetricOrder) : metrics[MetricOrder[k]] # "good"})

\* variant: has_green_cast set from the mild bound 8
RawOfCastFromMild(m) ==
    [ overall_brightness |-> m.overall_brightness,
      overall_contrast   |-> m.overall_contrast,
      green_dominance    |-> m.green_dominance,
      has_green_cast     |-> QGt(m.green_dominance, 8),
      is_underexposed    |-> QLt(m.overall_brightness, 100),
      is_overexposed     |-> QGt(m.overall_brightness, 180),
      avg_saturation     |-> m.avg_saturation,
      sharpness_score    |-> m.sharpness_score,
      dynamic_range      |-> m.dynamic_range ]

\* the "_raw" dictionary
RawOf(m) ==
    [ overall_brightness |-> m.overall_brightness,
      overall_contrast   |-> m.overall_contrast,
      green_dominance    |-> m.green_dominance,
      has_green_cast     |-> QGt(m.green_dominance, 15),
      is_underexposed    |-> QLt(m.overall_brightness, 100),
      is_overexposed     |-> QGt(m.overall_brightness, 180),
      avg_saturation     |-> m.avg_saturation,
      sharpness_score    |-> m.sharpness_score,
      dynamic_range      |-> m.dynamic_range ]

\* metrics[key]["severity"] for the six metrics
MetricsOf(m) ==
    [ brightness    |-> BrightnessSeverity(m.overall_brightness),
      contrast      |-> ContrastSeverity(m.overall_contrast),
      color_cast    |-> ColorCastSeverity(m.green_dominance),
      saturation    |-> SaturationSeverity(m.avg_saturation),
      sharpness     |-> SharpnessSeverity(m.sharpness_score),
      dynamic_range |-> DynamicRangeSeverity(m.dynamic_range) ]

\* the dictionary analyze_image_detailed returns, from the measured values
Classify(m) ==
    LET metrics == MetricsOf(m)
    IN  [ metrics         |-> metrics,
          recommendations |-> Recommendations(metrics),
          overall_score   |-> OverallScore(metrics),
          issues_found    |-> IssuesFound(metrics),
          raw             |-> RawOf(m) ]

analyze_image_detailed(im) == Classify(Measure(im))

NoAnalysis == [metrics |-> <<>>]

-----------------------------------------------------------------------------
(* Transform stages *)

\* variant: the caps 1.35 and 0.85 left out
ExposureFactorUncapped(raw) ==
    LET S == raw.overall_brightness[1]
        D == raw.overall_brightness[2]
    IN  IF raw.is_underexposed THEN <<384 * D - S, 256 * D>>
        ELSE IF raw.is_overexposed THEN <<512 * D - S, 384 * D>>
        ELSE <<105, 100>>

\* correct_exposure: the factor, as a rational, from raw brightness <<S, D>>
ExposureFactor(raw) ==
    LET S == raw.overall_brightness[1]
        D == raw.overall_brightness[2]
    IN  IF raw.is_underexposed
        THEN \* min(1.0 + (128 - brightness) / 256.0, 1.35)
             IF (384 * D - S) * 100 < 135 * 256 * D
             THEN <<384 * D - S, 256 * D>> ELSE <<135, 100>>
        ELSE IF raw.is_overexposed
        THEN \* max(1.0 - (brightness - 128) / 384.0, 0.85)
             IF (512 * D - S) * 100 > 85 * 384 * D
             THEN <<512 * D - S, 384 * D>> ELSE <<85, 100>>
        ELSE <<105, 100>>

\* ImageEnhance.Brightness(img).enhance(f): blend with a black image
EnhanceBrightness(im, f) ==
    LET a == Float32(f)
    IN  MapPx(im, LAMBDA p : [c \in 1..3 |-> Blend(0, p[c], a)])

correct_exposure(im, raw) == EnhanceBrightness(im, ExposureFactor(raw))

\* enhance_contrast: the factor
ContrastFactor(raw) ==
    IF QLt(raw.overall_contrast, 50) THEN <<130, 100>>
    ELSE IF QLt(raw.overall_contrast, 65) THEN <<118, 100>>
    ELSE <<108, 100>>

\* variant: the contrast blend taken around the fixed mid-gray
ContrastPivotMidGray(im) == 128

\* the gray level ImageEnhance.Contrast blends with:
\* int(ImageStat.Stat(image.convert("L")).mean[0] + 0.5)
ContrastPivot(im) ==
    (2 * SumSeq([i \in 1..Len(im.px) |-> Luma(im.px[i])]) + NPix(im))
        \div (2 * NPix(im))

\* ImageEnhance.Contrast(img).enhance(f)
EnhanceContrast(im, f) ==
    LET mean == ContrastPivot(im)
        a    == Float32(f)
    IN  MapPx(im, LAMBDA p : [c \in 1..3 |-> Blend(mean, p[c], a)])

enhance_contrast(im, raw) == EnhanceContrast(im, ContrastFactor(raw))

\* lut = [s_curve(i) for i in range(256)], with
\* s_curve(x) = int(max(0, min(255, 0.5*(1 + tanh(2.5*(x/255 - 0.5)))*255)))
SCurveLut ==
   <<
       19,  19,  20,  20,  20,  21,  21,  21,  22,  22,  23,  23,  23,  24,  24,  25,
       25,  26,  26,  27,  27,  28,  28,  29,  29,  30,  30,  31,  31,  32,  32,  33,
       33,  34,  35,  35,  36,  36,  37,  38,  38,  39,  40,  40,  41,  42,  42,  43,
       44,  45,  45,  46,  47,  48,  48,  49,  50,  51,  51,  52,  53,  54,  55,  56,
       57,  57,  58,  59,  60,  61,  62,  63,  64,  65,  66,  67,  68,  69,  70,  71,
       72,  73,  74,  75,  76,  77,  78,  79,  80,  81,  82,  83,  84,  85,  87,  88,
       89,  90,  91,  92,  93,  95,  96,  97,  98,  99, 101, 102, 103, 104, 105, 107,
      108, 109, 110, 111, 113, 114, 115, 116, 118, 119, 120, 121, 123, 124, 125, 126,
      128, 129, 130, 131, 133, 134, 135, 136, 138, 139, 140, 141, 143, 144, 145, 146,
      147, 149, 150, 151, 152, 153, 155, 156, 157, 158, 159, 161, 162, 163, 164, 165,
      166, 167, 169, 170, 171, 172, 173, 174, 175, 176, 177, 178, 179, 180, 181, 182,
      183, 184, 185, 186, 187, 188, 189, 190, 191, 192, 193, 194, 195, 196, 197, 197,
      198, 199, 200, 201, 202, 203, 203, 204, 205, 206, 206, 207, 208, 209, 209, 210,
      211, 212, 212, 213, 214, 214, 215, 216, 216, 217, 218, 218, 219, 219, 220, 221,
      221, 222, 222, 223, 223, 224, 224, 225, 225, 226, 226, 227, 227, 228, 228, 229,
      229, 230, 230, 231, 231, 231, 232, 232, 233, 233, 233, 234, 234, 234, 235, 235
   >>

\* apply_gradient_adjustment on an RGB image: img.point(lut * 3)
apply_gradient_adjustment(im) ==
    MapPx(im, LAMBDA p : [c \in 1..3 |-> SCurveLut[p[c] + 1]])

\* correction = min(green_dominance * 0.4, 25), as a rational
GreenCorrection(raw) ==
    LET N == raw.green_dominance[1]
        D == raw.green_dominance[2]
    IN  IF 2 * N < 125 * D THEN <<2 * N, 5 * D>> ELSE <<25, 1>>

\* variant: the chroma-key test without its level g > 150
IsChromaKeyAnyLevel(p) == 2 * p[2] > 3 * p[1] /\ 2 * p[2] > 3 * p[3]

\* the chroma-key test of remove_green_cast
IsChromaKey(p) == p[2] > 150 /\ 2 * p[2] > 3 * p[1] /\ 2 * p[2] > 3 * p[3]

\* variant: the min(255, ..) / max(0, ..) of lines 287-289 left out
GreenCastPixelUnclamped(p, corr) ==
    LET cn == corr[1]
        cd == corr[2]
    IN  << (p[1] * 5 * cd + cn) \div (5 * cd),
           (p[2] * 5 * cd - 3 * cn) \div (5 * cd),
           (p[3] * 20 * cd + 3 * cn) \div (20 * cd) >>

\* the pixel remove_green_cast stores for a pixel it does not skip
GreenCastPixel(p, corr) ==
    LET cn == corr[1]
        cd == corr[2]
    IN  << Min(255, (p[1] * 5 * cd + cn) \div (5 * cd)),
           Max(0, (p[2] * 5 * cd - 3 * cn) \div (5 * cd)),
           Min(255, (p[3] * 20 * cd + 3 * cn) \div (20 * cd)) >>

remove_green_cast(im, raw) ==
    IF ~raw.has_green_cast THEN im
    ELSE LET corr == GreenCorrection(raw)
         IN  MapPx(im, LAMBDA p : IF IsChromaKey(p) THEN p
                                  ELSE GreenCastPixel(p, corr))

\* 1000 * lum of apply_color_grading, in exact arithmetic
Lum1000(p) == 299 * p[1] + 587 * p[2] + 114 * p[3]

\* lum = r * 0.299 + g * 0.587 + b * 0.114 is a sum of IEEE doubles.  These are
\* the pixels whose exact luma is 60 or 180 and whose double sum comes out one
\* unit in the last place below it (59.99999999999999, 179.99999999999997);
\* for every other pixel the double sum and the exact luma lie on the same
\* side of 60 and of 180.
LumRoundsBelow ==
    { <<15, 87, 39>>, <<30, 78, 46>>, <<34, 68, 87>>, <<49, 59, 94>>,
      <<56, 70, 19>>, <<57, 39, 176>>, <<60, 252, 124>>, <<71, 61, 26>>,
      <<75, 51, 67>>, <<86, 244, 97>>, <<87, 213, 254>>, <<97, 245, 63>>,
      <<112, 236, 70>>, <<120, 216, 152>>, <<127, 227, 77>>, <<131, 25, 54>>,
      <<135, 15, 95>>, <<135, 207, 159>>, <<138, 228, 43>>, <<142, 218, 84>>,
      <<143, 187, 241>>, <<146, 16, 61>>, <<157, 209, 91>>, <<158, 178, 248>>,
      <<172, 8, 34>>, <<172, 200, 98>>, <<173, 169, 255>>, <<187, 191, 105>>,
      <<194, 202, 30>>, <<199, 161, 228>>, <<202, 182, 112>>, <<209, 193, 37>>,
      <<214, 152, 235>>, <<217, 173, 119>>, <<224, 184, 44>>, <<229, 143, 242>>,
      <<239, 175, 51>>, <<240, 144, 208>>, <<254, 166, 58>>, <<255, 135, 215>> }

\* the test lum < k of lines 301 and 303, k = 60 or 180
LumLt(p, k) ==
    \/ Lum1000(p) < 1000 * k
    \/ Lum1000(p) = 1000 * k /\ <<p[1], p[2], p[3]>> \in LumRoundsBelow

ColorGradePixel(p) ==
    IF LumLt(p, 60)
    THEN <<p[1], Min(255, p[2] + 2), Min(255, p[3] + 5)>>
    ELSE IF LumLt(p, 180)
    THEN <<Min(255, p[1] + 4), Min(255, p[2] + 1), Max(0, p[3] - 3)>>
    ELSE <<Min(255, p[1] + 3), Min(255, p[2] + 1), Max(0, p[3] - 2)>>

apply_color_grading(im, raw) == MapPx(im, ColorGradePixel)

\* optimize_saturation: the factor
SaturationFactor(raw) ==
    IF raw.has_green_cast THEN <<110, 100>>
    ELSE IF QLt(raw.overall_brightness, 100) THEN <<120, 100>>
    ELSE IF QGt(raw.overall_brightness, 170) THEN <<105, 100>>
    ELSE <<115, 100>>

\* ImageEnhance.Color(img).enhance(f): blend with the image's own gray version
EnhanceColor(im, f) ==
    LET a == Float32(f)
    IN  MapPx(im, LAMBDA p : [c \in 1..3 |-> Blend(Luma(p), p[c], a)])

optimize_saturation(im, raw) == EnhanceColor(im, SaturationFactor(raw))

\* C integer division, truncating toward zero
TruncDiv(a, b) == IF a >= 0 THEN a \div b ELSE 0 - ((0 - a) \div b)

\* PIL approximates a Gaussian blur of radius r by three box-blur passes of
\* fractional radius l + a (l, a from r*r/3, _gaussian_blur_radius).  A pass
\* weighs the 2l+1 nearest samples by ww and the two next ones by fw, the
\* weights summing to den.  Radius 1.5 gives l + a = 1 + 1/26 and radius 0.8
\* gives 0 + 8/59; the radius is passed in tenths.
BoxOf(radius10) ==
    IF radius10 = 15 THEN [l |-> 1, ww |-> 26, fw |-> 1, den |-> 80]
                     ELSE [l |-> 0, ww |-> 59, fw |-> 8, den |-> 75]

\* one box-blur pass over a line of samples, edges replicated, rounded
LineBoxBlur(line, box) ==
    LET n == Len(line)
        At(k) == line[IF k < 1 THEN 1 ELSE IF k > n THEN n ELSE k]
    IN  Tup([x \in 1..n |->
            LET acc == SumSeq([d \in 1..(2 * box.l + 1) |-> At(x - box.l - 1 + d)])
                far == At(x - box.l - 1) + At(x + box.l + 1)
            IN  (2 * (acc * box.ww + far * box.fw) + box.den) \div (2 * box.den)])

LinePasses(line, box) == LineBoxBlur(LineBoxBlur(LineBoxBlur(line, box), box), box)

\* ImagingGaussianBlur on one band: three horizontal then three vertical passes
BlurBand(band, w, h, box) ==
    LET rows == Tup([y \in 1..h |->
                    LinePasses(Tup([x \in 1..w |-> band[(y - 1) * w + x]]), box)])
        cols == Tup([x \in 1..w |->
                    LinePasses(Tup([y \in 1..h |-> rows[y][x]]), box)])
    IN  Tup([i \in 1..(w * h) |-> cols[((i - 1) % w) + 1][((i - 1) \div w) + 1]])

\* ImageFilter.UnsharpMask(radius, percent, threshold) on an RGB image
UnsharpMask(im, radius10, percent, threshold) ==
    LET box  == BoxOf(radius10)
        blur == Tup([c \in 1..3 |->
                    BlurBand(Tup([i \in 1..Len(im.px) |-> im.px[i][c]]), im.w, im.h, box)])
    IN  [im EXCEPT !.px = Tup([i \in 1..Len(im.px) |-> Tup([c \in 1..3 |->
            LET diff == im.px[i][c] - blur[c][i]
            IN  IF Abs(diff) > threshold
                THEN Clip8(im.px[i][c] + TruncDiv(diff * percent, 100))
                ELSE im.px[i][c]])])]

apply_sharpening(im) == UnsharpMask(im, 15, 80, 3)

\* the gentle sharpening of run_enhancement_pipeline, line 428
GentleSharpening(im) == UnsharpMask(im, 8, 40, 4)

\* apply_vignette divides by max_r = sqrt(cx**2 + cy**2): ZeroDivisionError
VignetteRaises(im) == (im.w \div 2) * (im.w \div 2) + (im.h \div 2) * (im.h \div 2) = 0

\* the smallest k with k*k >= p/m  (m > 0, p >= 0)
CeilSqrtQ(p, m) ==
    LET r == ISqrt(p \div m) IN IF r * r * m >= p THEN r ELSE r + 1

\* the mask value apply_vignette puts at (x, y)
Darkness(w, h, x, y) ==
    LET cx == w \div 2
        cy == h \div 2
        m2 == cx * cx + cy * cy
        d2 == (x - cx) * (x - cx) + (y - cy) * (y - cy)
        \* ratio > 0.6  <=>  25 * d2 > 9 * m2
        d  == IF 25 * d2 > 9 * m2
              THEN \* int(255 - (ratio - 0.6) * 160) = 351 - ceil(160 * ratio)
                   351 - CeilSqrtQ(25600 * d2, m2)
              ELSE 255
    IN  Max(d, 140)

\* Image.composite(band, zero, mask) on one sample: PIL's BLEND8 / DIV255
CompositeOverBlack(v, mask) ==
    LET tmp == v * mask + 128 IN ((tmp \div 256) + tmp) \div 256

apply_vignette(im) ==
    [im EXCEPT !.px = Tup([i \in 1..Len(im.px) |-> Tup([c \in 1..3 |->
        CompositeOverBlack(im.px[i][c],
                           Darkness(im.w, im.h, XOf(im, i), YOf(im, i)))])])]

-----------------------------------------------------------------------------
(* Input files *)

\* the colours input rasters are painted with
Palette == << <<0, 0, 0>>, <<255, 255, 255>>, <<50, 50, 50>>,
              <<150, 200, 150>>, <<40, 220, 40>>, <<40, 30, 20>>,
              <<230, 200, 150>>, <<120, 135, 110>> >>

Modes == {"RGB", "RGBA", "L", "P", "CMYK"}

\* a palette colour as a pixel of a file of the given mode
FilePixel(mode, k) ==
    LET c == Palette[k]
    IN  CASE mode = "RGB"  -> c
          [] mode = "RGBA" -> <<c[1], c[2], c[3], 128>>
          [] mode = "L"    -> <<c[1]>>
          [] mode = "P"    -> <<k>>
          [] mode = "CMYK" -> <<255 - c[1], 255 - c[2], 255 - c[3], 0>>

\* a w x h file painted with colours a and b: a checkerboard, or a single
\* pixel of a on a ground of b
InputFile(mode, w, h, a, b, layout) ==
    [ mode |-> mode, w |-> w, h |-> h,
      px |-> [i \in 1..(w * h) |->
                 LET x == (i - 1) % w
                     y == (i - 1) \div w
                     first == IF layout = "checker" THEN (x + y) % 2 = 0
                                                    ELSE i = 1
                 IN  FilePixel(mode, IF first THEN a ELSE b)] ]

\* RGB files of every pair of colours in both layouts; files of the other
\* modes as checkerboards of every colour with the next one
InputFiles ==
    { InputFile("RGB", w, h, a, b, layout) :
        w \in 1..MaxW, h \in 1..MaxH,
        a \in 1..Len(Palette), b \in 1..Len(Palette),
        layout \in {"checker", "solo"} }
    \cup
    { InputFile(mode, w, h, a, (a % Len(Palette)) + 1, "checker") :
        mode \in Modes \ {"RGB"}, w \in 1..MaxW, h \in 1..MaxH,
        a \in 1..Len(Palette) }

\* PIL's MULDIV255
MulDiv255(a, b) == LET tmp == a * b + 128 IN ((tmp \div 256) + tmp) \div 256

\* variant: a palette image read as if its indices were gray levels
ConvertPixelIndexAsGray(mode, p) ==
    CASE mode = "RGB"  -> p
      [] mode = "RGBA" -> <<p[1], p[2], p[3]>>
      [] mode = "L"    -> <<p[1], p[1], p[1]>>
      [] mode = "P"    -> <<p[1], p[1], p[1]>>
      [] mode = "CMYK" -> LET nk == 255 - p[4]
                          IN  [c \in 1..3 |-> Clip8(nk - MulDiv255(p[c], nk))]

\* img.convert('RGB') on one pixel of a file
ConvertPixel(mode, p) ==
    CASE mode = "RGB"  -> p
      [] mode = "RGBA" -> <<p[1], p[2], p[3]>>
      [] mode = "L"    -> <<p[1], p[1], p[1]>>
      [] mode = "P"    -> Palette[p[1]]
      [] mode = "CMYK" -> LET nk == 255 - p[4]
                          IN  [c \in 1..3 |-> Clip8(nk - MulDiv255(p[c], nk))]

\* Image.open(input_path) followed by the conversion of lines 366-367
OpenRGB(file) ==
    [ w |-> file.w, h |-> file.h,
      px |-> [i \in 1..Len(file.px) |-> ConvertPixel(file.mode, file.px[i])] ]

\* The statistics of lines 54-59 and the correction of lines 279-287 are
\* computed in double precision, here in exact rational arithmetic. The two
\* agree unless a band mean is not a whole number and the exact brightness or
\* green dominance lies on a threshold of the code, or a product of the
\* green-cast correction is a whole number: there the code's result hangs on
\* the last bit of the means.
OnRoundingEdge(file) ==
    LET im == OpenRGB(file)
        n == Len(im.px)
        R == BandSum(im, 1)
        G == BandSum(im, 2)
        B == BandSum(im, 3)
        S == R + G + B
        N == 2 * G - R - B
    IN  /\ ~(R % n = 0 /\ G % n = 0 /\ B % n = 0)
        /\ \/ \E t \in {70, 100, 160, 170, 180, 200} : S = 3 * n * t
           \/ \E t \in {8, 15, 25} : N = 2 * n * t
           \/ /\ N > 30 * n
              /\ N < 125 * n
              /\ \/ N % (25 * n) = 0
                 \/ (3 * N) % (25 * n) = 0
                 \/ (3 * N) % (100 * n) = 0

\* the files the pipeline is run on
ExactFiles == { file \in InputFiles : ~OnRoundingEdge(file) }

NoImage == [w |-> 0, h |-> 0, px |-> <<>>]
NoFile == NoImage
NoMeasure == [dynamic_range |-> 0 - 1]
NoRuns == <<>>
NoWatch == <<>>
NoWeb == <<>>

-----------------------------------------------------------------------------
(* run_enhancement_pipeline *)

\* variant: sharpening moved in front of the saturation stage
PipelineOrderSharpenEarly ==
    << "open", "analyze", "exposure", "contrast", "tone_mapping", "green_cast",
       "color_grading", "sharpening", "saturation", "vignette",
       "analyze_after", "save", "done" >>

\* variant: the image is saved before the vignette stage
PipelineOrderSaveEarly ==
    << "open", "analyze", "exposure", "contrast", "tone_mapping", "green_cast",
       "color_grading", "saturation", "sharpening", "save", "vignette",
       "analyze_after", "done" >>

\* the statements of run_enhancement_pipeline, in program order
PipelineOrder ==
    << "open", "analyze", "exposure", "contrast", "tone_mapping", "green_cast",
       "color_grading", "saturation", "sharpening", "vignette",
       "analyze_after", "save", "done" >>

After(p) ==
    PipelineOrder[(CHOOSE k \in 1..Len(PipelineOrder) : PipelineOrder[k] = p) + 1]

\* the conditions of lines 378, 389, 399, 405, 416, 422 and 433
AdaptiveExposure(a) == a.metrics.brightness # "good"
AdaptiveContrast(a) == a.metrics.contrast # "good"
\* variant: the tone curve is applied to every image
RunToneMappingAlways(a) == TRUE
RunToneMapping(a)   == a.metrics.dynamic_range # "good"
RunGreenCast(a)     == a.raw.has_green_cast
\* variant: the saturation stage decided on the image as it is by then
RunSaturationRemeasured(a) ==
    analyze_image_detailed(img).metrics.saturation # "good"
\* variant: the saturation stage applied to every image
RunSaturationAlways(a) == TRUE
RunSaturation(a)    == a.metrics.saturation # "good"
\* variant: the sharpening strength chosen by the contrast metric
StrongSharpeningByContrast(a) == a.metrics.contrast # "good"
StrongSharpening(a) == a.metrics.sharpness # "good"
\* variant: the vignette no longer looks at the green cast
RunVignetteAlways(a) == TRUE
RunVignette(a)      == ~a.raw.has_green_cast

\* the raster a stage reads: the local img, rebound by every stage before it
StageInput == img

\* img = stage(img); steps_applied.append(name)
Applied(name, out) ==
    /\ img' = out
    /\ steps_applied' = Append(steps_applied, name)
    /\ stage_io' = Append(stage_io, [stage |-> name, in |-> StageInput, out |-> out])

Skipped == UNCHANGED <<img, steps_applied, stage_io>>

\* an exception leaves run_enhancement_pipeline; enhance() answers 500
Raise(exc) ==
    /\ pc' = "failed"
    /\ error' = exc
    /\ UNCHANGED <<web, runs, watch, fp_contract, input, img, full_analysis, after_analysis, steps_applied,
                   stage_io, output_file, measured>>

Open ==
    /\ pc = "open"
    /\ img' = OpenRGB(input)
    /\ pc' = After("open")
    /\ UNCHANGED <<web, runs, watch, fp_contract, input, full_analysis, after_analysis, steps_applied,
                   stage_io, output_file, error, measured>>

Analyze ==
    /\ pc = "analyze"
    /\ IF ConvolveValidRaises(img.w, img.h)
       THEN Raise("ValueError")
       ELSE /\ full_analysis' = analyze_image_detailed(img)
            /\ measured' = Measure(img)
            /\ pc' = After("analyze")
            /\ UNCHANGED <<web, runs, watch, fp_contract, input, img, after_analysis, steps_applied,
                           stage_io, output_file, error>>

StepExposure ==
    /\ pc = "exposure"
    /\ IF AdaptiveExposure(full_analysis)
       THEN Applied("exposure", correct_exposure(StageInput, full_analysis.raw))
       ELSE Applied("exposure_fine", EnhanceBrightness(StageInput, <<102, 100>>))
    /\ pc' = After("exposure")
    /\ UNCHANGED <<web, runs, watch, fp_contract, input, full_analysis, after_analysis, output_file, error, measured>>

StepContrast ==
    /\ pc = "contrast"
    /\ IF AdaptiveContrast(full_analysis)
       THEN Applied("contrast", enhance_contrast(StageInput, full_analysis.raw))
       ELSE Applied("contrast_fine", EnhanceContrast(StageInput, <<105, 100>>))
    /\ pc' = After("contrast")
    /\ UNCHANGED <<web, runs, watch, fp_contract, input, full_analysis, after_analysis, output_file, error, measured>>

StepToneMapping ==
    /\ pc = "tone_mapping"
    /\ IF RunToneMapping(full_analysis)
       THEN Applied("tone_mapping", apply_gradient_adjustment(StageInput))
       ELSE Skipped
    /\ pc' = After("tone_mapping")
    /\ UNCHANGED <<web, runs, watch, fp_contract, input, full_analysis, after_analysis, output_file, error, measured>>

StepGreenCast ==
    /\ pc = "green_cast"
    /\ IF RunGreenCast(full_analysis)
       THEN Applied("green_cast", remove_green_cast(StageInput, full_analysis.raw))
       ELSE Skipped
    /\ pc' = After("green_cast")
    /\ UNCHANGED <<web, runs, watch, fp_contract, input, full_analysis, after_analysis, output_file, error, measured>>

StepColorGrading ==
    /\ pc = "color_grading"
    /\ Applied("color_grading", apply_color_grading(StageInput, full_analysis.raw))
    /\ pc' = After("color_grading")
    /\ UNCHANGED <<web, runs, watch, fp_contract, input, full_analysis, after_analysis, output_file, error, measured>>

StepSaturation ==
    /\ pc = "saturation"
    /\ IF RunSaturation(full_analysis)
       THEN Applied("saturation", optimize_saturation(StageInput, full_analysis.raw))
       ELSE Skipped
    /\ pc' = After("saturation")
    /\ UNCHANGED <<web, runs, watch, fp_contract, input, full_analysis, after_analysis, output_file, error, measured>>

StepSharpening ==
    /\ pc = "sharpening"
    /\ IF StrongSharpening(full_analysis)
       THEN Applied("sharpening", apply_sharpening(StageInput))
       ELSE Applied("sharpening_gentle", GentleSharpening(StageInput))
    /\ pc' = After("sharpening")
    /\ UNCHANGED <<web, runs, watch, fp_contract, input, full_analysis, after_analysis, output_file, error, measured>>

StepVignette ==
    /\ pc = "vignette"
    /\ IF ~RunVignette(full_analysis)
       THEN /\ Skipped
            /\ pc' = After("vignette")
            /\ UNCHANGED <<web, runs, watch, fp_contract, input, full_analysis, after_analysis, output_file,
                           error, measured>>
       ELSE IF VignetteRaises(StageInput)
       THEN Raise("ZeroDivisionError")
       ELSE /\ Applied("vignette", apply_vignette(StageInput))
            /\ pc' = After("vignette")
            /\ UNCHANGED <<web, runs, watch, fp_contract, input, full_analysis, after_analysis, output_file,
                           error, measured>>

AnalyzeAfter ==
    /\ pc = "analyze_after"
    /\ IF ConvolveValidRaises(img.w, img.h)
       THEN Raise("ValueError")
       ELSE /\ after_analysis' = analyze_image_detailed(img)
            /\ pc' = After("analyze_after")
            /\ UNCHANGED <<web, runs, watch, fp_contract, input, img, full_analysis, steps_applied, stage_io,
                           output_file, error, measured>>

\* img.save(output_path, "PNG", optimize=True) and the return of the stats
Save ==
    /\ pc = "save"
    /\ output_file' = img
    /\ pc' = After("save")
    /\ UNCHANGED <<web, runs, watch, fp_contract, input, img, full_analysis, after_analysis, steps_applied,
                   stage_io, error, measured>>

Init ==
    /\ input \in ExactFiles
    /\ pc = "open"
    /\ img = NoImage
    /\ full_analysis = NoAnalysis
    /\ after_analysis = NoAnalysis
    /\ steps_applied = <<>>
    /\ stage_io = <<>>
    /\ output_file = NoFile
    /\ error = "none"
    /\ measured = NoMeasure
    /\ fp_contract \in BOOLEAN
    /\ runs = NoRuns
    /\ watch = NoWatch
    /\ web = NoWeb

Next ==
    \/ Open
    \/ Analyze
    \/ StepExposure
    \/ StepContrast
    \/ StepToneMapping
    \/ StepGreenCast
    \/ StepColorGrading
    \/ StepSaturation
    \/ StepSharpening
    \/ StepVignette
    \/ AnalyzeAfter
    \/ Save

Spec == Init /\ [][Next]_vars

-----------------------------------------------------------------------------
(* The classifier on its own: lines 82-251 applied to measured values *)

NoInput == [mode |-> "none", w |-> 0, h |-> 0, px |-> <<>>]

\* one value per severity band of each metric
BrightnessPoints == {50, 85, 130, 170, 190, 230}
ContrastPoints   == {20, 40, 60, 80}
GreenPoints      == {0, 10, 20, 30}
SaturationPoints == {20, 50, 80, 150, 220}
SharpnessPoints  == {50, 200, 500, 1000}
RangePoints      == {50, 120, 200}

MidMeasure ==
    [ overall_brightness |-> <<130, 1>>, overall_contrast |-> <<80, 1>>,
      green_dominance |-> <<0, 1>>, sharpness_score |-> <<1000, 1>>,
      avg_saturation |-> <<150, 1>>, dynamic_range |-> 200 ]

\* every combination of the band values, and each metric swept over its
\* range in steps of 1/GridDen with the others held at MidMeasure
MeasureGrid ==
    { [ overall_brightness |-> <<b, 1>>, overall_contrast |-> <<c, 1>>,
        green_dominance |-> <<g, 1>>, sharpness_score |-> <<sh, 1>>,
        avg_saturation |-> <<sa, 1>>, dynamic_range |-> d ] :
        b \in BrightnessPoints, c \in ContrastPoints, g \in GreenPoints,
        sh \in SharpnessPoints, sa \in SaturationPoints, d \in RangePoints }
    \cup { [MidMeasure EXCEPT !.overall_brightness = <<k, GridDen>>] :
             k \in 0..(255 * GridDen) }
    \cup { [MidMeasure EXCEPT !.overall_contrast = <<k, GridDen>>] :
             k \in 0..(128 * GridDen) }
    \cup { [MidMeasure EXCEPT !.green_dominance = <<k, GridDen>>] :
             k \in (0 - 255 * GridDen)..(255 * GridDen) }
    \cup { [MidMeasure EXCEPT !.avg_saturation = <<k, GridDen>>] :
             k \in 0..(255 * GridDen) }
    \cup { [MidMeasure EXCEPT !.sharpness_score = <<k, GridDen>>] :
             k \in 0..(850 * GridDen) }
    \cup { [MidMeasure EXCEPT !.dynamic_range = d] : d \in 0..255 }

InitStats ==
    /\ measured \in MeasureGrid
    /\ pc = "classify"
    /\ input = NoInput
    /\ img = NoImage
    /\ full_analysis = NoAnalysis
    /\ after_analysis = NoAnalysis
    /\ steps_applied = <<>>
    /\ stage_io = <<>>
    /\ output_file = NoFile
    /\ error = "none"
    /\ fp_contract = FALSE
    /\ runs = NoRuns
    /\ watch = NoWatch
    /\ web = NoWeb

ClassifyMeasured ==
    /\ pc = "classify"
    /\ full_analysis' = Classify(measured)
    /\ pc' = "classified"
    /\ UNCHANGED <<web, runs, watch, fp_contract, input, img, after_analysis, steps_applied, stage_io,
                   output_file, error, measured>>

NextStats == ClassifyMeasured

SpecStats == InitStats /\ [][NextStats]_vars

-----------------------------------------------------------------------------
(* The per-pixel stages on their own: remove_green_cast and                *)
(* apply_color_grading called on a raster with a statistics record         *)

\* pixels on and around the bounds the two functions test
StagePixels ==
    { <<0, 0, 0>>, <<255, 255, 255>>, <<253, 254, 252>>, <<60, 60, 60>>,
      <<15, 87, 39>>, <<180, 180, 180>>, <<60, 252, 124>>, <<128, 128, 128>>,
      <<40, 220, 40>>, <<40, 100, 40>>, <<100, 151, 100>>, <<101, 151, 100>>,
      <<0, 2, 250>>, <<254, 10, 254>> }

StageRasters ==
    { [mode |-> "RGB", w |-> 1, h |-> 1, px |-> <<p>>] : p \in StagePixels }
    \cup
    { [mode |-> "RGB", w |-> 2, h |-> 1, px |-> <<p, q>>] :
        p \in StagePixels, q \in StagePixels }

\* green dominance on both sides of has_green_cast and of the cap of the
\* correction (25 is reached at 62.5)
StageGreenDominance ==
    { <<0 - 20, 1>>, <<0, 1>>, <<15, 1>>, <<31, 2>>, <<20, 1>>, <<76, 3>>,
      <<125, 2>>, <<100, 1>> }

InitStages ==
    /\ input \in StageRasters
    /\ measured \in { [MidMeasure EXCEPT !.green_dominance = gd] :
                        gd \in StageGreenDominance }
    /\ pc = "call"
    /\ img = NoImage
    /\ full_analysis = NoAnalysis
    /\ after_analysis = NoAnalysis
    /\ steps_applied = <<>>
    /\ stage_io = <<>>
    /\ output_file = NoFile
    /\ error = "none"
    /\ fp_contract = FALSE
    /\ runs = NoRuns
    /\ watch = NoWatch
    /\ web = NoWeb

\* img = stage(img, analysis), the analysis being the "_raw" record
Returned(name, out) ==
    /\ img' = out
    /\ stage_io' = <<[stage |-> name, in |-> OpenRGB(input), out |-> out]>>
    /\ pc' = "returned"
    /\ UNCHANGED <<web, runs, watch, fp_contract, input, full_analysis, after_analysis,
                   steps_applied, output_file, error, measured>>

CallRemoveGreenCast ==
    /\ pc = "call"
    /\ Returned("green_cast", remove_green_cast(OpenRGB(input), RawOf(measured)))

CallColorGrading ==
    /\ pc = "call"
    /\ Returned("color_grading", apply_color_grading(OpenRGB(input), RawOf(measured)))

NextStages == CallRemoveGreenCast \/ CallColorGrading

SpecStages == InitStages /\ [][NextStages]_vars

-----------------------------------------------------------------------------
(* The watcher's enhance_single_photo (src/auto_enhance.py) and the batch  *)
(* enhancer's process_image (src/enhance_photos.py)                        *)

\* round(x, 2) of a rational: the nearest hundredth, a half going to the even
\* one
Round2(q) ==
    LET x == 100 * q[1]
        f == x \div q[2]
        r == x % q[2]
    IN  IF 2 * r > q[2] \/ (2 * r = q[2] /\ f % 2 = 1)
        THEN <<f + 1, 100>> ELSE <<f, 100>>

\* variant: the statistics handed to the stages as measured, not rounded
AnalyzeImageUnrounded(im) ==
    LET n == NPix(im)
        R == BandSum(im, 1)
        G == BandSum(im, 2)
        B == BandSum(im, 3)
    IN  [ overall_brightness |-> <<R + G + B, 3 * n>>,
          overall_contrast   |-> <<BandStd10N(im, 1) + BandStd10N(im, 2)
                                      + BandStd10N(im, 3), 30 * n>>,
          green_dominance    |-> <<2 * G - R - B, 2 * n>>,
          has_green_cast     |-> QGt(<<2 * G - R - B, 2 * n>>, 15),
          is_underexposed    |-> QLt(<<R + G + B, 3 * n>>, 100),
          is_overexposed     |-> QGt(<<R + G + B, 3 * n>>, 180) ]

\* analyze_image of auto_enhance.py: the values rounded to two decimals, the
\* three flags taken from the unrounded values
analyze_image(im) ==
    LET n == NPix(im)
        R == BandSum(im, 1)
        G == BandSum(im, 2)
        B == BandSum(im, 3)
        overall_brightness == <<R + G + B, 3 * n>>
        overall_contrast   == <<BandStd10N(im, 1) + BandStd10N(im, 2)
                                    + BandStd10N(im, 3), 30 * n>>
        green_dominance    == <<2 * G - R - B, 2 * n>>
    IN  [ overall_brightness |-> Round2(overall_brightness),
          overall_contrast   |-> Round2(overall_contrast),
          green_dominance    |-> Round2(green_dominance),
          has_green_cast     |-> QGt(green_dominance, 15),
          is_underexposed    |-> QLt(overall_brightness, 100),
          is_overexposed     |-> QGt(overall_brightness, 180) ]

\* analyze_image of enhance_photos.py
batch_analyze_image(im) ==
    LET n == NPix(im)
        R == BandSum(im, 1)
        G == BandSum(im, 2)
        B == BandSum(im, 3)
        overall_brightness == <<R + G + B, 3 * n>>
        overall_contrast   == <<BandStd10N(im, 1) + BandStd10N(im, 2)
                                    + BandStd10N(im, 3), 30 * n>>
        green_dominance    == <<2 * G - R - B, 2 * n>>
        has_green_cast     == QGt(green_dominance, 15)
        is_underexposed    == QLt(overall_brightness, 100)
        is_overexposed     == QGt(overall_brightness, 180)
    IN  [ overall_brightness |-> Round2(overall_brightness),
          overall_contrast   |-> Round2(overall_contrast),
          green_dominance    |-> Round2(green_dominance),
          has_green_cast     |-> has_green_cast,
          is_underexposed    |-> is_underexposed,
          is_overexposed     |-> is_overexposed ]

\* apply_sharpening of enhance_photos.py
batch_apply_sharpening(im) == UnsharpMask(im, 15, 80, 3)

\* the mask value apply_vignette of enhance_photos.py puts at (x, y): the
\* floor of 140 is applied inside the branch ratio > 0.6 only
BatchDarkness(w, h, x, y) ==
    LET cx == w \div 2
        cy == h \div 2
        m2 == cx * cx + cy * cy
        d2 == (x - cx) * (x - cx) + (y - cy) * (y - cy)
    IN  IF 25 * d2 > 9 * m2
        THEN Max(351 - CeilSqrtQ(25600 * d2, m2), 140)
        ELSE 255

batch_apply_vignette(im) ==
    [im EXCEPT !.px = Tup([i \in 1..Len(im.px) |-> Tup([c \in 1..3 |->
        CompositeOverBlack(im.px[i][c],
                           BatchDarkness(im.w, im.h, XOf(im, i), YOf(im, i)))])])]

NotRun == [error |-> "not run", out |-> NoFile, stages |-> <<>>]

\* a local variable of the Python code: the value is computed once, where it
\* is assigned, and F uses that value
Local(value, F(_)) == CHOOSE r \in {F(v) : v \in {value}} : TRUE

\* enhance_single_photo(filepath, output_dir): the exception it ends with, the
\* raster it saves, and the stage calls it made with their parameters
enhance_single_photo(file) ==
    Local(OpenRGB(file), LAMBDA img0 :
    Local(analyze_image(img0), LAMBDA analysis :
    Local(correct_exposure(img0, analysis), LAMBDA img1 :
    Local(enhance_contrast(img1, analysis), LAMBDA img2 :
    Local(apply_gradient_adjustment(img2), LAMBDA img3 :
    Local(IF analysis.has_green_cast
          THEN remove_green_cast(img3, analysis) ELSE img3, LAMBDA img4 :
    Local(apply_color_grading(img4, analysis), LAMBDA img5 :
    Local(optimize_saturation(img5, analysis), LAMBDA img6 :
    Local(apply_sharpening(img6), LAMBDA img7 :
    LET called == << <<"correct_exposure", ExposureFactor(analysis)>>,
                     <<"enhance_contrast", ContrastFactor(analysis)>>,
                     <<"apply_gradient_adjustment", <<>> >> >>
                  \o (IF analysis.has_green_cast
                      THEN << <<"remove_green_cast", GreenCorrection(analysis)>> >>
                      ELSE <<>>)
                  \o << <<"apply_color_grading", <<>> >>,
                        <<"optimize_saturation", SaturationFactor(analysis)>>,
                        <<"apply_sharpening", <<15, 80, 3>> >> >>
    IN  IF analysis.has_green_cast
        THEN [error |-> "none", out |-> img7, stages |-> called]
        ELSE IF VignetteRaises(img7)
        THEN [error |-> "ZeroDivisionError", out |-> NoFile, stages |-> called]
        ELSE [error |-> "none", out |-> apply_vignette(img7),
              stages |-> Append(called, <<"apply_vignette", <<>> >>)]
    )))))))))

\* process_image(filepath, output_dir)
process_image(file) ==
    Local(OpenRGB(file), LAMBDA img_rgb0 :
    Local(batch_analyze_image(img_rgb0), LAMBDA analysis_before :
    Local(correct_exposure(img_rgb0, analysis_before), LAMBDA img_rgb1 :
    Local(enhance_contrast(img_rgb1, analysis_before), LAMBDA img_rgb2 :
    Local(apply_gradient_adjustment(img_rgb2), LAMBDA img_rgb3 :
    Local(IF analysis_before.has_green_cast
          THEN remove_green_cast(img_rgb3, analysis_before)
          ELSE img_rgb3, LAMBDA img_rgb4 :
    Local(apply_color_grading(img_rgb4, analysis_before), LAMBDA img_rgb5 :
    Local(optimize_saturation(img_rgb5, analysis_before), LAMBDA img_rgb6 :
    Local(batch_apply_sharpening(img_rgb6), LAMBDA img_rgb7 :
    LET called == << <<"correct_exposure", ExposureFactor(analysis_before)>>,
                     <<"enhance_contrast", ContrastFactor(analysis_before)>>,
                     <<"apply_gradient_adjustment", <<>> >> >>
                  \o (IF analysis_before.has_green_cast
                      THEN << <<"remove_green_cast",
                                GreenCorrection(analysis_before)>> >>
                      ELSE <<>>)
                  \o << <<"apply_color_grading", <<>> >>,
                        <<"optimize_saturation", SaturationFactor(analysis_before)>>,
                        <<"apply_sharpening", <<15, 80, 3>> >> >>
    IN  IF analysis_before.has_green_cast
        THEN [error |-> "none", out |-> img_rgb7, stages |-> called]
        ELSE IF VignetteRaises(img_rgb7)
        THEN [error |-> "ZeroDivisionError", out |-> NoFile, stages |-> called]
        ELSE [error |-> "none", out |-> batch_apply_vignette(img_rgb7),
              stages |-> Append(called, <<"apply_vignette", <<>> >>)]
    )))))))))

InitTwin ==
    /\ input \in ExactFiles
    /\ runs = [single |-> NotRun, batch |-> NotRun]
    /\ pc = "twin"
    /\ img = NoImage
    /\ full_analysis = NoAnalysis
    /\ after_analysis = NoAnalysis
    /\ steps_applied = <<>>
    /\ stage_io = <<>>
    /\ output_file = NoFile
    /\ error = "none"
    /\ measured = NoMeasure
    /\ fp_contract \in BOOLEAN
    /\ watch = NoWatch
    /\ web = NoWeb

\* the watcher enhances the file
EnhanceSinglePhoto ==
    /\ pc = "twin"
    /\ runs.single = NotRun
    /\ runs' = [runs EXCEPT !.single = enhance_single_photo(input)]
    /\ UNCHANGED <<web, watch, fp_contract, input, pc, img, full_analysis,
                   after_analysis, steps_applied, stage_io, output_file, error,
                   measured>>

\* the batch enhancer processes the same file
ProcessImage ==
    /\ pc = "twin"
    /\ runs.batch = NotRun
    /\ runs' = [runs EXCEPT !.batch = process_image(input)]
    /\ UNCHANGED <<web, watch, fp_contract, input, pc, img, full_analysis,
                   after_analysis, steps_applied, stage_io, output_file, error,
                   measured>>

NextTwin == EnhanceSinglePhoto \/ ProcessImage

SpecTwin == InitTwin /\ [][NextTwin]_vars

-----------------------------------------------------------------------------
(* The watcher: src/auto_enhance.py, lines 207-337                         *)
(*                                                                         *)
(* watch.folder maps a file name <<stem, extension>> of the input folder   *)
(* to [size, mtime, raises]: size -1 is a file that is not there, raises   *)
(* tells whether enhance_single_photo raises on the present content.       *)
(* Other programs place, write and remove files while the watcher runs;    *)
(* every write stamps the file with a later mtime.  The md5 digest of      *)
(* get_file_hash is taken to be injective and is kept as the triple        *)
(* <<name, size, mtime>> it is computed from.  watch.written holds the     *)
(* outputs saved, each with the file and the mtime of the content it was   *)
(* made from; watch.errors holds the files, with the mtime of the content, *)
(* for which " ERROR: ..." was printed.                                    *)

MaxClock == 2
MaxSize == 2

SUPPORTED_EXT == {".jpg", ".jpeg", ".png", ".bmp", ".tiff", ".webp"}

\* str.lower() on the extensions of FileNames
Lower(ext) == IF ext = ".PNG" THEN ".png" ELSE ext

FileNames == { <<"a", ".jpg">>, <<"b", ".PNG">>, <<"notes", ".txt">> }

Absent == [size |-> 0 - 1, mtime |-> 0, raises |-> FALSE]
NoHash == <<>>
NoName == <<>>

Present(n) == watch.folder[n].size >= 0

\* f"{name_no_ext}_enhanced.png", kept as <<name_no_ext, "_enhanced.png">>
OutputName(n) == <<n[1], "_enhanced.png">>

\* os.path.splitext(f)[1].lower() in SUPPORTED_EXT
IsImageFile(n) == Lower(n[2]) \in SUPPORTED_EXT

\* get_file_hash(filepath) of a file that is there
get_file_hash(n) == <<n, watch.folder[n].size, watch.folder[n].mtime>>

\* variant: a file name found in the tracker is skipped, whatever its hash
AlreadyProcessedByName(n, file_hash) == watch.tracker[n] # NoHash

\* filename in tracker and tracker[filename] == file_hash
AlreadyProcessed(n, file_hash) == watch.tracker[n] = file_hash

InitWatch ==
    /\ watch = [ folder    |-> [n \in FileNames |-> Absent],
                 clock     |-> 0,
                 tracker   |-> [n \in FileNames |-> NoHash],
                 written   |-> {},
                 errors    |-> {},
                 wpc       |-> "scan",
                 images    |-> {},
                 filepath  |-> NoName,
                 file_hash |-> NoHash,
                 size1     |-> 0 ]
    /\ runs = NoRuns
    /\ web = NoWeb
    /\ input = NoFile
    /\ pc = "watch"
    /\ img = NoImage
    /\ full_analysis = NoAnalysis
    /\ after_analysis = NoAnalysis
    /\ steps_applied = <<>>
    /\ stage_io = <<>>
    /\ output_file = NoFile
    /\ error = "none"
    /\ measured = NoMeasure
    /\ fp_contract = FALSE

WatchOnly ==
    UNCHANGED <<web, runs, fp_contract, input, pc, img, full_analysis,
                after_analysis, steps_applied, stage_io, output_file, error,
                measured>>

\* another program creates a file in the input folder
Place(n) ==
    /\ ~Present(n)
    /\ watch.clock < MaxClock
    /\ \E s \in 0..1, r \in BOOLEAN :
          watch' = [watch EXCEPT
                       !.folder[n] = [size |-> s, mtime |-> watch.clock + 1,
                                      raises |-> r],
                       !.clock = watch.clock + 1]
    /\ WatchOnly

\* another program writes to a file of the input folder
WriteFile(n) ==
    /\ Present(n)
    /\ watch.clock < MaxClock
    /\ \E s \in {watch.folder[n].size, Min(watch.folder[n].size + 1, MaxSize)},
          r \in BOOLEAN :
          watch' = [watch EXCEPT
                       !.folder[n] = [size |-> s, mtime |-> watch.clock + 1,
                                      raises |-> r],
                       !.clock = watch.clock + 1]
    /\ WatchOnly

\* another program removes a file from the input folder
Remove(n) ==
    /\ Present(n)
    /\ watch.clock < MaxClock
    /\ watch' = [watch EXCEPT !.folder[n] = Absent, !.clock = watch.clock + 1]
    /\ WatchOnly

\* process_new_files: images = get_image_files()
Scan ==
    /\ watch.wpc = "scan"
    /\ watch' = [watch EXCEPT
                    !.images = {n \in FileNames : Present(n) /\ IsImageFile(n)},
                    !.wpc = "next"]
    /\ WatchOnly

\* for filepath in images: get_file_hash and the tracker test; os.stat of a
\* file that is gone raises FileNotFoundError, which nothing in main catches
NextFile ==
    /\ watch.wpc = "next"
    /\ watch.images # {}
    /\ \E n \in watch.images :
          IF ~Present(n)
          THEN watch' = [watch EXCEPT !.images = {}, !.wpc = "crashed"]
          ELSE IF AlreadyProcessed(n, get_file_hash(n))
          THEN watch' = [watch EXCEPT !.images = watch.images \ {n}]
          ELSE watch' = [watch EXCEPT !.images = watch.images \ {n},
                                      !.filepath = n,
                                      !.file_hash = get_file_hash(n),
                                      !.wpc = "size1"]
    /\ WatchOnly

\* `continue`
Continue ==
    [watch EXCEPT !.filepath = NoName, !.file_hash = NoHash, !.size1 = 0,
                  !.wpc = "next"]

\* is_file_ready: size1 = os.path.getsize(filepath); OSError returns False
ReadSize1 ==
    /\ watch.wpc = "size1"
    /\ IF Present(watch.filepath)
       THEN watch' = [watch EXCEPT !.size1 = watch.folder[watch.filepath].size,
                                   !.wpc = "size2"]
       ELSE watch' = Continue
    /\ WatchOnly

\* is_file_ready after time.sleep(0.5): size2, and size1 == size2 and size1 > 0
ReadSize2 ==
    /\ watch.wpc = "size2"
    /\ IF /\ Present(watch.filepath)
          /\ watch.size1 = watch.folder[watch.filepath].size
          /\ watch.size1 > 0
       THEN watch' = [watch EXCEPT !.size1 = 0, !.wpc = "enhance"]
       ELSE watch' = Continue
    /\ WatchOnly

\* variant: the tracker entry written before the enhancement is tried
EnhanceTrackedFirst ==
    /\ watch.wpc = "enhance"
    /\ LET n == watch.filepath
       IN  IF ~Present(n) \/ watch.folder[n].raises
           THEN watch' = [Continue EXCEPT
                             !.errors = watch.errors
                                 \cup {<<n, watch.folder[n].mtime>>},
                             !.tracker[n] = watch.file_hash]
           ELSE watch' = [Continue EXCEPT
                             !.written = watch.written
                                 \cup {<<OutputName(n), n, watch.folder[n].mtime>>},
                             !.tracker[n] = watch.file_hash]
    /\ WatchOnly

\* try: enhance_single_photo(filepath, OUTPUT_DIR); tracker[filename] =
\* file_hash; save_tracker(tracker)   except Exception: print
Enhance ==
    /\ watch.wpc = "enhance"
    /\ LET n == watch.filepath
       IN  IF ~Present(n) \/ watch.folder[n].raises
           THEN watch' = [Continue EXCEPT
                             !.errors = watch.errors
                                 \cup {<<n, watch.folder[n].mtime>>}]
           ELSE watch' = [Continue EXCEPT
                             !.written = watch.written
                                 \cup {<<OutputName(n), n, watch.folder[n].mtime>>},
                             !.tracker[n] = watch.file_hash]
    /\ WatchOnly

\* process_new_files returns; time.sleep(POLL_INTERVAL); while True
Sleep ==
    /\ watch.wpc = "next"
    /\ watch.images = {}
    /\ watch' = [watch EXCEPT !.wpc = "scan"]
    /\ WatchOnly

WatcherStep == Scan \/ NextFile \/ ReadSize1 \/ ReadSize2 \/ Enhance \/ Sleep

NextWatch ==
    \/ \E n \in FileNames : Place(n)
    \/ \E n \in FileNames : WriteFile(n)
    \/ \E n \in FileNames : Remove(n)
    \/ Scan
    \/ NextFile
    \/ ReadSize1
    \/ ReadSize2
    \/ Enhance
    \/ Sleep

SpecWatch == InitWatch /\ [][NextWatch]_vars

\* the poll loop keeps running: the watcher's next step is always taken
SpecWatchFair == SpecWatch /\ WF_vars(WatcherStep)

-----------------------------------------------------------------------------
(* The /enhance route: src/app.py, lines 519-573                           *)
(*                                                                         *)
(* One original has been uploaded and analyzed by /analyze and lies at     *)
(* input_path.  Requests for its filename are served by threads of their   *)
(* own, so the statements of different calls interleave; web.now counts    *)
(* quarters of an hour.  web.raises tells whether run_enhancement_pipeline *)
(* raises on the content of the upload.  os.remove unlinks the path even   *)
(* while another call holds the file open.                                 *)

MaxCalls == 2
MaxTime == 4

\* time.sleep(1800), in quarters of an hour
CleanupDelay == 2

Calls == 1..MaxCalls

NoCall == [pc |-> "idle", ok_at |-> 0, cleanup |-> "none", wake |-> 0]

InitWeb ==
    /\ web \in [ now     : {0},
                 on_disk : {TRUE},
                 raises  : BOOLEAN,
                 call    : {[c \in Calls |-> NoCall]} ]
    /\ runs = NoRuns
    /\ watch = NoWatch
    /\ input = NoFile
    /\ pc = "web"
    /\ img = NoImage
    /\ full_analysis = NoAnalysis
    /\ after_analysis = NoAnalysis
    /\ steps_applied = <<>>
    /\ stage_io = <<>>
    /\ output_file = NoFile
    /\ error = "none"
    /\ measured = NoMeasure
    /\ fp_contract = FALSE

WebOnly ==
    UNCHANGED <<runs, watch, fp_contract, input, pc, img, full_analysis,
                after_analysis, steps_applied, stage_io, output_file, error,
                measured>>

\* the statement call c goes to next
Goto(c, p) == [web EXCEPT !.call[c].pc = p]

\* a request arrives: if not os.path.exists(input_path): return 404
EnhanceRequest(c) ==
    /\ web.call[c].pc = "idle"
    /\ web' = Goto(c, IF web.on_disk THEN "open" ELSE "404")
    /\ WebOnly

\* run_enhancement_pipeline: img = Image.open(input_path)
PipelineOpen(c) ==
    /\ web.call[c].pc = "open"
    /\ web' = Goto(c, IF web.on_disk THEN "stages" ELSE "except")
    /\ WebOnly

\* run_enhancement_pipeline: the raster is read through the open file, the
\* stages run, the output is saved
PipelineStages(c) ==
    /\ web.call[c].pc = "stages"
    /\ web' = Goto(c, IF web.raises THEN "except" ELSE "getsize")
    /\ WebOnly

\* run_enhancement_pipeline: os.path.getsize(input_path)
PipelineGetSize(c) ==
    /\ web.call[c].pc = "getsize"
    /\ web' = Goto(c, IF web.on_disk THEN "schedule" ELSE "except")
    /\ WebOnly

\* threading.Thread(target=cleanup, daemon=True).start(); return jsonify(stats)
ScheduleCleanup(c) ==
    /\ web.call[c].pc = "schedule"
    /\ web' = [web EXCEPT !.call[c] = [pc      |-> "200",
                                       ok_at   |-> web.now,
                                       cleanup |-> "sleeping",
                                       wake    |-> web.now + CleanupDelay]]
    /\ WebOnly

\* except Exception: os.remove(input_path), OSError passed over; return 500
FailRemove(c) ==
    /\ web.call[c].pc = "except"
    /\ web' = [Goto(c, "500") EXCEPT !.on_disk = FALSE]
    /\ WebOnly

\* cleanup(): after time.sleep(1800), os.remove(input_path), OSError passed over
Cleanup(c) ==
    /\ web.call[c].cleanup = "sleeping"
    /\ web.now >= web.call[c].wake
    /\ web' = [web EXCEPT !.call[c].cleanup = "done", !.on_disk = FALSE]
    /\ WebOnly

\* a quarter of an hour passes
Tick ==
    /\ web.now < MaxTime
    /\ web' = [web EXCEPT !.now = web.now + 1]
    /\ WebOnly

NextWeb ==
    \/ \E c \in Calls : EnhanceRequest(c)
    \/ \E c \in Calls : PipelineOpen(c)
    \/ \E c \in Calls : PipelineStages(c)
    \/ \E c \in Calls : PipelineGetSize(c)
    \/ \E c \in Calls : ScheduleCleanup(c)
    \/ \E c \in Calls : FailRemove(c)
    \/ \E c \in Calls : Cleanup(c)
    \/ Tick

SpecWeb == InitWeb /\ [][NextWeb]_vars

-----------------------------------------------------------------------------
(* Properties *)

Has(name) == \E k \in 1..Len(steps_applied) : steps_applied[k] = name

\* the stages have all run (or been skipped) and none raised
StagesDone == pc \in {"analyze_after", "save", "done"}

\* the position of a stage name in the fixed order of the eight stages
StageSlot(name) ==
    CASE name \in {"exposure", "exposure_fine"} -> 1
      [] name \in {"contrast", "contrast_fine"} -> 2
      [] name = "tone_mapping" -> 3
      [] name = "green_cast" -> 4
      [] name = "color_grading" -> 5
      [] name = "saturation" -> 6
      [] name \in {"sharpening", "sharpening_gentle"} -> 7
      [] name = "vignette" -> 8
      [] OTHER -> 0

AllGood(metrics) == \A k \in 1..Len(MetricOrder) : metrics[MetricOrder[k]] = "good"

\* C1: once the stages of a run are through, exactly one of green_cast and
\* vignette is in steps_applied: green_cast iff the input's green dominance
\* g_mean - (r_mean + b_mean)/2 exceeds 15 (has_green_cast), vignette iff not.
C1_GreenCastXorVignette ==
    StagesDone =>
        LET im   == OpenRGB(input)
            cast == 2 * BandSum(im, 2) - BandSum(im, 1) - BandSum(im, 3)
                        > 30 * NPix(im)
        IN  /\ full_analysis.raw.has_green_cast <=> cast
            /\ Has("green_cast") <=> cast
            /\ Has("vignette") <=> ~cast

C1_Witness == pc = "done" /\ Has("green_cast") /\ ~Has("vignette")

\* C2: at every point of a run steps_applied lists stages in the fixed order
\* exposure, contrast, tone_mapping, green_cast, color_grading, saturation,
\* sharpening, vignette, none twice, and every stage read exactly what the
\* stage applied before it wrote (the first one the converted input).
C2_FixedOrderChained ==
    /\ \A k \in 1..Len(steps_applied) : StageSlot(steps_applied[k]) \in 1..8
    /\ \A j, k \in 1..Len(steps_applied) :
           j < k => StageSlot(steps_applied[j]) < StageSlot(steps_applied[k])
    /\ Len(stage_io) = Len(steps_applied)
    /\ \A k \in 1..Len(stage_io) :
           /\ stage_io[k].stage = steps_applied[k]
           /\ stage_io[k].in = IF k = 1 THEN OpenRGB(input) ELSE stage_io[k - 1].out
    /\ Len(stage_io) > 0 => img = stage_io[Len(stage_io)].out

C2_Witness == pc = "done" /\ Len(steps_applied) = 7 /\ Has("saturation")

\* the penalty table of the score, as the specification states it
ClaimPenalty(sev) ==
    CASE sev = "good" -> 0 [] sev = "mild" -> 5
      [] sev = "moderate" -> 12 [] sev = "severe" -> 20

\* C3: overall_score = max(0, min(100, 100 - sum of the six penalties)), it
\* lies in 0..100, and it is 100 exactly when all six metrics are good.
C3_ScoreFormula ==
    pc = "classified" =>
        LET m     == full_analysis.metrics
            total == ClaimPenalty(m.brightness) + ClaimPenalty(m.contrast)
                     + ClaimPenalty(m.color_cast) + ClaimPenalty(m.saturation)
                     + ClaimPenalty(m.sharpness) + ClaimPenalty(m.dynamic_range)
        IN  /\ full_analysis.overall_score = Max(0, Min(100, 100 - total))
            /\ full_analysis.overall_score \in 0..100
            /\ full_analysis.overall_score = 100 <=> AllGood(m)

\* the clamp at 0 acts: five severe metrics and a moderate dynamic range
C3_Witness ==
    /\ pc = "classified"
    /\ full_analysis.overall_score = 0
    /\ full_analysis.metrics.dynamic_range = "moderate"
    /\ \A k \in 1..5 : full_analysis.metrics[MetricOrder[k]] = "severe"

\* C4: the raster every stage writes, the current image and the saved file
\* have three channels per pixel, each within 0..255.
C4_RangeInvariant ==
    /\ InRange(img)
    /\ InRange(output_file)
    /\ \A k \in 1..Len(stage_io) :
           /\ InRange(stage_io[k].out)
           /\ \A i \in 1..Len(stage_io[k].out.px) : Len(stage_io[k].out.px[i]) = 3

\* color-cast removal met a pixel whose green would otherwise go below 0
C4_Witness ==
    \E k \in 1..Len(stage_io) :
        /\ stage_io[k].stage = "green_cast"
        /\ \E i \in 1..Len(stage_io[k].in.px) :
               /\ ~IsChromaKey(stage_io[k].in.px[i])
               /\ stage_io[k].in.px[i][2] = 0
               /\ stage_io[k].out.px[i][2] = 0

\* C5: a run whose six metrics are all good returns steps_applied =
\* [exposure_fine, contrast_fine, color_grading, sharpening_gentle, vignette].
C5_AllGoodSteps ==
    (pc = "done" /\ AllGood(full_analysis.metrics)) =>
        steps_applied = << "exposure_fine", "contrast_fine", "color_grading",
                           "sharpening_gentle", "vignette" >>

C5_Witness ==
    /\ pc = "done"
    /\ AllGood(full_analysis.metrics)
    /\ Len(steps_applied) = 5

\* the exposure factor as the specification states it, for brightness
\* b = <<S, D>> and the brightness severity
ClaimExposureFactor(b, sev) ==
    LET under == <<384 * b[2] - b[1], 256 * b[2]>>   \* 1 + (128 - b)/256
        over  == <<512 * b[2] - b[1], 384 * b[2]>>   \* 1 - (b - 128)/384
    IN  IF sev = "good" THEN <<102, 100>>
        ELSE IF QLt(b, 100)
        THEN IF 100 * under[1] < 135 * under[2] THEN under ELSE <<135, 100>>
        ELSE IF QGt(b, 180)
        THEN IF 100 * over[1] > 85 * over[2] THEN over ELSE <<85, 100>>
        ELSE <<105, 100>>

\* C6: the first stage multiplies every channel of the converted input by
\* 1.02 if brightness is good, else by min(1 + (128-b)/256, 1.35) if b < 100,
\* max(1 - (b-128)/384, 0.85) if b > 180, 1.05 in between; the adaptive factor
\* lies in [0.85, 1.35]; a uniform raster of 50s gets 1.3046875 and becomes 65.
\* The product is cut to its integer part; where it is a whole number the
\* single-precision arithmetic of the blend may leave it one short.
C6_ExposureFactor ==
    Len(stage_io) >= 1 =>
        LET im == OpenRGB(input)
            b  == <<BandSum(im, 1) + BandSum(im, 2) + BandSum(im, 3), 3 * NPix(im)>>
            F  == ClaimExposureFactor(b, full_analysis.metrics.brightness)
            io == stage_io[1]
        IN  /\ StageSlot(io.stage) = 1
            /\ \A i \in 1..Len(io.in.px) : \A c \in 1..3 :
                   LET prod == io.in.px[i][c] * F[1]
                       X    == Clip8(prod \div F[2])
                   IN  \/ io.out.px[i][c] = X
                       \/ /\ io.out.px[i][c] = X - 1
                          /\ prod % F[2] = 0
            /\ full_analysis.metrics.brightness # "good" =>
                   LET A == ExposureFactor(full_analysis.raw)
                   IN  /\ io.stage = "exposure"
                       /\ A[1] * F[2] = F[1] * A[2]
                       /\ 85 * A[2] <= 100 * A[1]
                       /\ 100 * A[1] <= 135 * A[2]
            /\ (\A i \in 1..Len(io.in.px) : io.in.px[i] = <<50, 50, 50>>) =>
                   /\ 128 * F[1] = 167 * F[2]
                   /\ \A i \in 1..Len(io.in.px) : io.out.px[i] = <<65, 65, 65>>

C6_Witness ==
    /\ Len(stage_io) >= 1
    /\ stage_io[1].stage = "exposure"
    /\ \A i \in 1..Len(stage_io[1].in.px) :
           /\ stage_io[1].in.px[i] = <<50, 50, 50>>
           /\ stage_io[1].out.px[i] = <<65, 65, 65>>

\* C7: brightness severity by band: severe below 70, moderate in [70,100),
\* good in [100,160], mild in (160,180], moderate in (180,200], severe above
\* 200; exactly one band holds; is_underexposed (b < 100) and is_overexposed
\* (b > 180) hold exactly in the under and over bands, whose severity is
\* moderate or severe.
C7_BrightnessBands ==
    pc = "classified" =>
        LET b        == measured.overall_brightness
            sev      == full_analysis.metrics.brightness
            sevUnder == QLt(b, 70)
            modUnder == ~QLt(b, 70) /\ QLt(b, 100)
            good     == ~QLt(b, 100) /\ ~QGt(b, 160)
            mild     == QGt(b, 160) /\ ~QGt(b, 180)
            modOver  == QGt(b, 180) /\ ~QGt(b, 200)
            sevOver  == QGt(b, 200)
            bands    == <<sevUnder, modUnder, good, mild, modOver, sevOver>>
        IN  /\ Cardinality({k \in 1..6 : bands[k]}) = 1
            /\ sev = "severe" <=> (sevUnder \/ sevOver)
            /\ sev = "moderate" <=> (modUnder \/ modOver)
            /\ sev = "mild" <=> mild
            /\ sev = "good" <=> good
            /\ full_analysis.raw.is_underexposed <=> (sevUnder \/ modUnder)
            /\ full_analysis.raw.is_overexposed <=> (sevOver \/ modOver)
            /\ (full_analysis.raw.is_underexposed \/ full_analysis.raw.is_overexposed)
                   => sev \in {"moderate", "severe"}

\* a brightness exactly on the bound 100, which is good and not underexposed
C7_Witness ==
    /\ pc = "classified"
    /\ measured.overall_brightness[1] = 100 * measured.overall_brightness[2]
    /\ full_analysis.metrics.brightness = "good"
    /\ ~full_analysis.raw.is_underexposed

C9_NoPartialOutput ==
    /\ output_file # NoFile =>
           /\ pc = "done"
           /\ error = "none"
           /\ after_analysis # NoAnalysis
           /\ output_file = img
           /\ Has("color_grading")
           /\ Has("sharpening") \/ Has("sharpening_gentle")
           /\ IF full_analysis.raw.has_green_cast THEN Has("green_cast")
                                                  ELSE Has("vignette")
    /\ pc = "failed" => (error # "none" /\ output_file = NoFile)

\* a stage raised after earlier stages had already changed the image
C9_Witness ==
    /\ pc = "failed"
    /\ error = "ZeroDivisionError"
    /\ Len(steps_applied) >= 4
    /\ img # OpenRGB(input)
    /\ output_file = NoFile

\* C10 as stated: for a raster of width and height at least 1 no stage of the
\* pipeline raises.
C10_NoStageRaises ==
    (input.w >= 1 /\ input.h >= 1) => ~(pc = "failed" /\ full_analysis # NoAnalysis)

StagesToCheck ==
    IF pc \in {"done", "failed"} THEN 1..Len(stage_io)
    ELSE {Len(stage_io)} \ {0}

\* the transform a stage name stands for, with the parameters the analysis a
\* of the converted input gives it
StageResult(name, im, a) ==
    CASE name = "exposure"          -> correct_exposure(im, a.raw)
      [] name = "exposure_fine"     -> EnhanceBrightness(im, <<102, 100>>)
      [] name = "contrast"          -> enhance_contrast(im, a.raw)
      [] name = "contrast_fine"     -> EnhanceContrast(im, <<105, 100>>)
      [] name = "tone_mapping"      -> apply_gradient_adjustment(im)
      [] name = "green_cast"        -> remove_green_cast(im, a.raw)
      [] name = "color_grading"     -> apply_color_grading(im, a.raw)
      [] name = "saturation"        -> optimize_saturation(im, a.raw)
      [] name = "sharpening"        -> apply_sharpening(im)
      [] name = "sharpening_gentle" -> GentleSharpening(im)
      [] name = "vignette"          -> apply_vignette(im)

\* the stage names the analysis a of the converted input plans, in order
PlannedSteps(a) ==
    <<IF a.metrics.brightness # "good" THEN "exposure" ELSE "exposure_fine">>
    \o <<IF a.metrics.contrast # "good" THEN "contrast" ELSE "contrast_fine">>
    \o (IF a.metrics.dynamic_range # "good" THEN <<"tone_mapping">> ELSE <<>>)
    \o (IF a.raw.has_green_cast THEN <<"green_cast">> ELSE <<>>)
    \o <<"color_grading">>
    \o (IF a.metrics.saturation # "good" THEN <<"saturation">> ELSE <<>>)
    \o <<IF a.metrics.sharpness # "good" THEN "sharpening" ELSE "sharpening_gentle">>
    \o (IF a.raw.has_green_cast THEN <<>> ELSE <<"vignette">>)

\* C13: the statistics record is the analysis of the converted input and stays
\* so while the stages run; the stages applied are a prefix of the plan that
\* record alone determines, every stage's output is its transform with the
\* parameters of that record, and the re-analysis of the result only fills the
\* after-report.
C13_ParametersFrozen ==
    full_analysis # NoAnalysis =>
        LET a    == analyze_image_detailed(OpenRGB(input))
            plan == PlannedSteps(a)
        IN  /\ full_analysis = a
            /\ Len(steps_applied) <= Len(plan)
            /\ steps_applied = SubSeq(plan, 1, Len(steps_applied))
            /\ StagesDone => steps_applied = plan
            /\ \A k \in StagesToCheck :
                   stage_io[k].out = StageResult(stage_io[k].stage, stage_io[k].in, a)
            /\ after_analysis # NoAnalysis =>
                   after_analysis = analyze_image_detailed(img)

\* the saturation stage ran on the word of the first analysis although the
\* image it read would no longer have called for it
C13_Witness ==
    /\ pc = "done"
    /\ \E k \in 1..Len(stage_io) :
           /\ stage_io[k].stage = "saturation"
           /\ analyze_image_detailed(stage_io[k].in).metrics.saturation = "good"
    /\ after_analysis.metrics # full_analysis.metrics

\* the stages up to and including saturation have been passed
PastSaturation ==
    \/ pc \in {"sharpening", "vignette", "analyze_after", "save", "done"}
    \/ pc = "failed" /\ error = "ZeroDivisionError"

\* C14: tone_mapping is applied iff dynamic_range severity is not good, that
\* is dynamic_range < 150; saturation is applied iff saturation severity is not
\* good, that is avg_saturation < 90 or > 200; a stage that is not applied
\* leaves no entry and the next stage reads what the previous one wrote.
C14_OptionalStages ==
    /\ PastSaturation =>
           /\ Has("tone_mapping") <=> full_analysis.metrics.dynamic_range # "good"
           /\ Has("tone_mapping") <=> measured.dynamic_range < 150
           /\ Has("saturation") <=> full_analysis.metrics.saturation # "good"
           /\ Has("saturation") <=> (QLt(measured.avg_saturation, 90)
                                       \/ QGt(measured.avg_saturation, 200))
    /\ \A k \in 1..(Len(stage_io) - 1) : stage_io[k + 1].in = stage_io[k].out
    /\ \A k \in 1..(Len(stage_io) - 1) :
           (StageSlot(stage_io[k].stage) = 2 /\ measured.dynamic_range >= 150)
               => StageSlot(stage_io[k + 1].stage) > 3
    /\ \A k \in 1..(Len(stage_io) - 1) :
           (StageSlot(stage_io[k].stage) = 5
               /\ ~QLt(measured.avg_saturation, 90)
               /\ ~QGt(measured.avg_saturation, 200))
               => StageSlot(stage_io[k + 1].stage) = 7

\* a narrow-range image of ordinary saturation: tone curve yes, saturation no
C14_Witness ==
    /\ pc = "done"
    /\ Has("tone_mapping")
    /\ ~Has("saturation")
    /\ measured.dynamic_range < 150
    /\ \E k \in 1..(Len(stage_io) - 1) :
           /\ stage_io[k].stage = "color_grading"
           /\ StageSlot(stage_io[k + 1].stage) = 7
           /\ stage_io[k + 1].in = stage_io[k].out

Count(names) ==
    Cardinality({k \in 1..Len(steps_applied) : steps_applied[k] \in names})

\* C15: a run that has passed the sharpening stage has applied exactly one of
\* exposure / exposure_fine, one of contrast / contrast_fine, color_grading
\* once and exactly one of sharpening / sharpening_gentle; the adaptive or
\* strong variant is the one applied iff the metric's severity is not good;
\* strong sharpening is UnsharpMask(1.5, 80, 3), gentle is UnsharpMask(0.8, 40, 4).
C15_MandatoryStages ==
    /\ (pc \in {"vignette", "analyze_after", "save", "done"}
          \/ (pc = "failed" /\ error = "ZeroDivisionError")) =>
           /\ Count({"exposure", "exposure_fine"}) = 1
           /\ Count({"contrast", "contrast_fine"}) = 1
           /\ Count({"color_grading"}) = 1
           /\ Count({"sharpening", "sharpening_gentle"}) = 1
           /\ Has("exposure") <=> full_analysis.metrics.brightness # "good"
           /\ Has("contrast") <=> full_analysis.metrics.contrast # "good"
           /\ Has("sharpening") <=> full_analysis.metrics.sharpness # "good"
    /\ \A k \in StagesToCheck :
           /\ stage_io[k].stage = "sharpening" =>
                  stage_io[k].out = UnsharpMask(stage_io[k].in, 15, 80, 3)
           /\ stage_io[k].stage = "sharpening_gentle" =>
                  stage_io[k].out = UnsharpMask(stage_io[k].in, 8, 40, 4)

\* a sharp image of low contrast: gentle sharpening beside adaptive contrast
C15_Witness ==
    /\ pc = "done"
    /\ Has("sharpening_gentle")
    /\ Has("contrast")
    /\ \E k \in 1..Len(stage_io) :
           /\ stage_io[k].stage = "sharpening_gentle"
           /\ stage_io[k].out # stage_io[k].in

\* C20: has_green_cast holds iff color_cast severity is moderate or severe;
\* a run on an image of mild color_cast applies the vignette and no color-cast
\* removal.
C20_GreenCastSeverity ==
    full_analysis # NoAnalysis =>
        /\ full_analysis.raw.has_green_cast
               <=> full_analysis.metrics.color_cast \in {"moderate", "severe"}
        /\ (StagesDone /\ full_analysis.metrics.color_cast = "mild") =>
               (Has("vignette") /\ ~Has("green_cast"))

C20_Witness ==
    /\ pc = "done"
    /\ full_analysis.metrics.color_cast = "mild"
    /\ QGt(measured.green_dominance, 8)
    /\ Has("vignette")
    /\ ~Has("green_cast")

\* correction = min(green_dominance * 0.4, 25) as the specification states it
ClaimCorrection(gd) ==
    IF 2 * gd[1] < 125 * gd[2] THEN <<2 * gd[1], 5 * gd[2]>> ELSE <<25, 1>>

\* the integer part of a rational n / d, d > 0, cut toward zero as int() does
IntPart(n, d) == IF n >= 0 THEN n \div d ELSE 0 - ((0 - n) \div d)

\* C16: remove_green_cast with correction = min(green_dominance * 0.4, 25)
\* leaves a chroma-key pixel (g > 150, g > 1.5 r, g > 1.5 b) as it is and
\* stores (min(255, r + 0.2 c), max(0, g - 0.6 c), min(255, b + 0.15 c)), cut
\* to integers, for every other pixel, so red and blue do not decrease and
\* green does not increase; without has_green_cast the raster is unchanged.
C16_GreenCastRemoval ==
    (pc = "returned" /\ stage_io[1].stage = "green_cast") =>
        LET io   == stage_io[1]
            gd   == measured.green_dominance
            corr == ClaimCorrection(gd)
            cn   == corr[1]
            cd   == corr[2]
        IN  IF ~QGt(gd, 15)
            THEN io.out = io.in
            ELSE /\ io.out.w = io.in.w /\ io.out.h = io.in.h
                 /\ Len(io.out.px) = Len(io.in.px)
                 /\ \A i \in 1..Len(io.in.px) :
                        LET p == io.in.px[i]
                            q == io.out.px[i]
                        IN  IF p[2] > 150 /\ 2 * p[2] > 3 * p[1] /\ 2 * p[2] > 3 * p[3]
                            THEN q = p
                            ELSE /\ q[1] = Min(255, IntPart(5 * cd * p[1] + cn, 5 * cd))
                                 /\ q[2] = Max(0, IntPart(5 * cd * p[2] - 3 * cn, 5 * cd))
                                 /\ q[3] = Min(255, IntPart(20 * cd * p[3] + 3 * cn, 20 * cd))
                                 /\ q[1] >= p[1] /\ q[3] >= p[3] /\ q[2] <= p[2]

\* a green cast, a chroma-key pixel kept beside a pixel that was corrected
\* and had its green held at 0
C16_Witness ==
    /\ pc = "returned"
    /\ stage_io[1].stage = "green_cast"
    /\ QGt(measured.green_dominance, 15)
    /\ stage_io[1].in.px = << <<40, 220, 40>>, <<0, 2, 250>> >>
    /\ stage_io[1].out.px[1] = <<40, 220, 40>>
    /\ stage_io[1].out.px[2][2] = 0
    /\ stage_io[1].out.px[2][1] > 0

\* the pixel color grading is to store, as the specification states it, with
\* luma = 0.299 r + 0.587 g + 0.114 b
ClaimColorGrade(p) ==
    LET luma1000 == 299 * p[1] + 587 * p[2] + 114 * p[3]
    IN  IF luma1000 < 60000
        THEN <<p[1], Min(255, p[2] + 2), Min(255, p[3] + 5)>>
        ELSE IF luma1000 < 180000
        THEN <<Min(255, p[1] + 4), Min(255, p[2] + 1), Max(0, p[3] - 3)>>
        ELSE <<Min(255, p[1] + 3), Min(255, p[2] + 1), Max(0, p[3] - 2)>>

\* C17 as stated: color grading stores (r, g+2, b+5) for luma < 60,
\* (r+4, g+1, b-3) for 60 <= luma < 180 and (r+3, g+1, b-2) for luma >= 180,
\* clamped, for every pixel and from that pixel alone.
C17_ColorGradingBands ==
    (pc = "returned" /\ stage_io[1].stage = "color_grading") =>
        /\ Len(stage_io[1].out.px) = Len(stage_io[1].in.px)
        /\ \A i \in 1..Len(stage_io[1].in.px) :
               stage_io[1].out.px[i] = ClaimColorGrade(stage_io[1].in.px[i])

\* the contrast factor as the specification states it
ClaimContrastFactor(c, sev) ==
    IF sev = "good" THEN <<105, 100>>
    ELSE IF QLt(c, 50) THEN <<130, 100>>
    ELSE IF QLt(c, 65) THEN <<118, 100>>
    ELSE <<108, 100>>

\* the contrast stage's entry in stage_io, 0 if it has not run
ContrastEntry ==
    IF \E k \in 1..Len(stage_io) : StageSlot(stage_io[k].stage) = 2
    THEN CHOOSE k \in 1..Len(stage_io) : StageSlot(stage_io[k].stage) = 2
    ELSE 0

C19_SamePipeline ==
    (runs # NoRuns /\ runs.single # NotRun /\ runs.batch # NotRun) =>
        LET im    == OpenRGB(input)
            cast  == QGt(<<2 * BandSum(im, 2) - BandSum(im, 1) - BandSum(im, 3),
                           2 * NPix(im)>>, 15)
            names == [k \in 1..Len(runs.single.stages) |-> runs.single.stages[k][1]]
        IN  /\ runs.single = runs.batch
            /\ runs.single.error = "none" =>
                   /\ names = IF cast
                              THEN << "correct_exposure", "enhance_contrast",
                                      "apply_gradient_adjustment", "remove_green_cast",
                                      "apply_color_grading", "optimize_saturation",
                                      "apply_sharpening" >>
                              ELSE << "correct_exposure", "enhance_contrast",
                                      "apply_gradient_adjustment",
                                      "apply_color_grading", "optimize_saturation",
                                      "apply_sharpening", "apply_vignette" >>
                   /\ runs.single.out.w = input.w
                   /\ runs.single.out.h = input.h
                   /\ \E k \in 1..Len(runs.single.stages) :
                          runs.single.stages[k] = <<"apply_sharpening", <<15, 80, 3>> >>

\* both have run on a file with a green cast, each has removed the cast and
\* changed the raster, and the two outputs are the same raster
C19_Witness ==
    /\ runs # NoRuns
    /\ runs.single.error = "none"
    /\ runs.batch.error = "none"
    /\ runs.single.out = runs.batch.out
    /\ runs.single.out # OpenRGB(input)
    /\ Len(runs.single.stages) = 7
    /\ runs.single.stages[4][1] = "remove_green_cast"

\* the files of the input folder the watcher is to enhance
ImageNames == {n \in FileNames : IsImageFile(n)}

\* C11: while the poll loop keeps running, a file of the input folder with a
\* supported extension that comes to rest with a non-zero size and a content
\* on which the enhancement does not raise is eventually enhanced from that
\* content (its output <name>_enhanced.png is written) and recorded in the
\* tracker under the hash of that size and mtime; a tracked file that changes
\* is thereby enhanced again.
C11_EventuallyEnhanced ==
    \A n \in ImageNames : \A s \in 1..MaxSize : \A t \in 1..MaxClock :
        <>[](watch.folder[n] = [size |-> s, mtime |-> t, raises |-> FALSE])
            => <>(\/ watch.wpc = "crashed"
                  \/ /\ <<OutputName(n), n, t>> \in watch.written
                     /\ watch.tracker[n] = <<n, s, t>>)

\* a file was enhanced and tracked, was written to afterwards, and has been
\* enhanced again from the later content and tracked under the later hash
C11_Witness ==
    /\ watch # NoWatch
    /\ watch.wpc # "crashed"
    /\ \E n \in ImageNames : \E t1 \in 1..MaxClock : \E t2 \in 1..MaxClock :
           /\ t1 < t2
           /\ <<OutputName(n), n, t1>> \in watch.written
           /\ <<OutputName(n), n, t2>> \in watch.written
           /\ watch.folder[n].mtime = t2
           /\ watch.tracker[n] = get_file_hash(n)

\* the step name the pipeline records for an action of the recommendation list
StepOfAction(action) ==
    CASE action = "Adaptive Exposure Correction" -> "exposure"
      [] action = "Contrast Enhancement + S-Curve" -> "contrast"
      [] action = "Green Cast Removal" -> "green_cast"
      [] action = "Saturation Optimization" -> "saturation"
      [] action = "Professional Sharpening" -> "sharpening"
      [] action = "Tone Mapping & Gradient Adjustment" -> "tone_mapping"
      [] action = "Cinematic Color Grading" -> "color_grading"
      [] action = "Cinematic Vignette" -> "vignette"

\* C21: every action recommended in the before-report of a run that has
\* returned is in steps_applied of that run under its step name: exposure,
\* contrast, green_cast, saturation, sharpening, tone_mapping, color_grading,
\* vignette.
C21_RecommendedApplied ==
    pc = "done" =>
        \A k \in 1..Len(full_analysis.recommendations) :
            Has(StepOfAction(full_analysis.recommendations[k]))

\* C22: in every step of the watcher, for every file name n:
\* the tracker entry of n changes only in the step in which
\* enhance_single_photo has returned for n without raising, and it becomes
\* the hash taken for n in this poll; enhance_single_photo is never called on
\* a file whose present hash equals its tracker entry; a step that ends the
\* handling of n because the file is not ready or the enhancement raised
\* leaves the tracker as it is; and n is passed over as already processed
\* only if an output has been saved from its present content, so a file not
\* yet enhanced is taken up again in every later poll.
C22_TrackerDiscipline ==
    [][ watch # NoWatch =>
          \A n \in FileNames :
            LET handled  == watch.filepath = n /\ watch'.wpc = "next"
                attempt  == handled /\ watch.wpc = "enhance"
                returned == attempt /\ Present(n) /\ ~watch.folder[n].raises
                gave_up  == /\ handled
                            /\ watch.wpc \in {"size1", "size2", "enhance"}
                            /\ ~returned
                skipped  == /\ watch.wpc = "next"
                            /\ watch'.wpc = "next"
                            /\ n \in watch.images
                            /\ n \notin watch'.images
                output   == <<OutputName(n), n, watch.folder[n].mtime>>
            IN  /\ watch'.tracker[n] # watch.tracker[n] =>
                       /\ returned
                       /\ watch'.tracker[n] = watch.file_hash
                       /\ output \in watch'.written
                /\ attempt =>
                       ~(Present(n) /\ watch.tracker[n] = get_file_hash(n))
                /\ gave_up => watch'.tracker = watch.tracker
                /\ skipped => (Present(n) /\ output \in watch.written)
      ]_vars

\* one file has been enhanced and is tracked under its present hash; for
\* another the enhancement has raised, its tracker entry is still empty, and
\* a later poll has taken it up again
C22_Witness ==
    /\ watch # NoWatch
    /\ \E n \in ImageNames : \E m \in ImageNames :
           /\ n # m
           /\ Present(m)
           /\ watch.tracker[m] = get_file_hash(m)
           /\ <<OutputName(m), m, watch.folder[m].mtime>> \in watch.written
           /\ Present(n)
           /\ <<n, watch.folder[n].mtime>> \in watch.errors
           /\ watch.tracker[n] = NoHash
           /\ watch.filepath = n
           /\ watch.wpc = "size1"

====
